---- MODULE Spec2Model ----
(***************************************************************************)
(* A model of the kba Game Boy Advance emulator: the ARM7TDMI decoder and  *)
(* interpreter (build.rs, arm/interpreter), the memory bus (mmu/bus.rs),   *)
(* the interrupt registers and the step function Gba::run (gba.rs).        *)
(*                                                                         *)
(* Representation.  A u32 of the CPU (a register, a PSR, an opcode) is the *)
(* set of the positions of its 1 bits, a subset of 0..31: TLC's integers   *)
(* stop at 2^31-1, and the N flag is bit 31.  A u8, a u16, a table index   *)
(* and a bus address below 2^31 are natural numbers.  u32 arithmetic wraps *)
(* modulo 2^32 (the release profile's behaviour of + and -).               *)
(* A Rust panic is the flag cpu.panic: the process is gone, nothing else   *)
(* happens after it.                                                       *)
(***************************************************************************)
EXTENDS Naturals, Integers, Sequences, FiniteSets, TLC

VARIABLES
    opcode,     \* decoder: the opcode being looked up (a u32)
    handler,    \* decoder: the table entry selected for it, or NoHandler
    cpu,        \* Gba.cpu: the Arm7TDMI (regs, cpsr, spsr, banked_regs, branch,
                \* bus) and panic, set once a panic has ended the process
    cycles,     \* Gba.cycles
    jit,        \* the JitTranslator's block cache, and where a call of
                \* get_next_block stands (its position and its local cycles)
    last,       \* the operation that produced this state, with what it saw
    rom         \* Gba.rom: the ROM image the Gba was constructed with

vars == <<opcode, handler, cpu, cycles, jit, last, rom>>

(***************************************************************************)
(* Integer and bit helpers.                                                *)
(***************************************************************************)
RECURSIVE BitAnd(_, _)
\* a & b on natural numbers.
BitAnd(a, b) ==
    IF a = 0 \/ b = 0 THEN 0
    ELSE (IF a % 2 = 1 /\ b % 2 = 1 THEN 1 ELSE 0) + 2 * BitAnd(a \div 2, b \div 2)

\* index & (1 << i) != 0 on a natural number.
TestBit(n, i) == (n \div (2 ^ i)) % 2 = 1

\* The u32 with the value n (n < 2^31).
WordOf(n) == {i \in 0..30 : TestBit(n, i)}

RECURSIVE ValueOf(_)
\* The value of a u32 whose bit 31 is clear.
ValueOf(w) ==
    IF w = {} THEN 0
    ELSE LET i == CHOOSE j \in w : TRUE IN (2 ^ i) + ValueOf(w \ {i})

\* (w >> lo) restricted to the bits lo..hi of w, as a number.
Field(w, lo, hi) == ValueOf({i - lo : i \in {j \in w : j >= lo /\ j <= hi}})

(***************************************************************************)
(* build.rs: the generated ARM look-up table.                              *)
(***************************************************************************)
NoHandler == [fn |-> "none", params |-> <<>>]

Fn(name, params) == [fn |-> name, params |-> params]

\* A mutant of decode_arm: the PSR-transfer test is made before the
\* halfword-transfer tests.
decode_arm_psr_first(index) ==
    IF BitAnd(index, 4047) = 9 THEN Fn("multiply", <<TestBit(index, 4)>>)
    ELSE IF BitAnd(index, 3983) = 137 THEN Fn("multiply_long", <<TestBit(index, 4)>>)
    ELSE IF BitAnd(index, 4031) = 265 THEN Fn("swap", <<TestBit(index, 6)>>)
    ELSE IF BitAnd(index, 4095) = 289 THEN Fn("bx", <<>>)
    ELSE IF BitAnd(index, 3584) = 2560 THEN Fn("bl", <<>>)
    ELSE IF BitAnd(index, 3472) = 256
        THEN Fn("psr_transfer", <<TestBit(index, 9), TestBit(index, 6)>>)
    ELSE IF BitAnd(index, 3657) = 9 \/ BitAnd(index, 3657) = 73
        THEN Fn("hw_signed_data_transfer",
                <<TestBit(index, 6), TestBit(index, 8), TestBit(index, 7),
                  TestBit(index, 5), TestBit(index, 4), TestBit(index, 2),
                  TestBit(index, 1)>>)
    ELSE IF BitAnd(index, 3584) = 2048
        THEN Fn("block_data_transfer",
                <<TestBit(index, 8), TestBit(index, 7), TestBit(index, 6),
                  TestBit(index, 5), TestBit(index, 4)>>)
    ELSE IF BitAnd(index, 3072) = 0
        THEN Fn("data_processing", <<TestBit(index, 9), TestBit(index, 4)>>)
    ELSE IF BitAnd(index, 3072) = 1024
        THEN Fn("single_data_transfer",
                <<TestBit(index, 9), TestBit(index, 8), TestBit(index, 7),
                  TestBit(index, 6), TestBit(index, 5), TestBit(index, 4)>>)
    ELSE IF BitAnd(index, 3840) = 3840 THEN Fn("swi", <<FALSE>>)
    ELSE Fn("undefined", <<>>)

\* decode_arm(index): the handler, with its const parameters, that the build
\* script writes at table position index.  The masks are build.rs's binary
\* literals: 0b1111_1100_1111 = 4047, 0b1111_1000_1111 = 3983,
\* 0b1111_1011_1111 = 4031, 0b1110_0000_0000 = 3584, 0b1110_0100_1001 = 3657,
\* 0b1101_1001_0000 = 3472, 0b1100_0000_0000 = 3072, 0b1111_0000_0000 = 3840.
decode_arm(index) ==
    IF BitAnd(index, 4047) = 9 THEN Fn("multiply", <<TestBit(index, 4)>>)
    ELSE IF BitAnd(index, 3983) = 137 THEN Fn("multiply_long", <<TestBit(index, 4)>>)
    ELSE IF BitAnd(index, 4031) = 265 THEN Fn("swap", <<TestBit(index, 6)>>)
    ELSE IF BitAnd(index, 4095) = 289 THEN Fn("bx", <<>>)
    ELSE IF BitAnd(index, 3584) = 2560 THEN Fn("bl", <<>>)
    ELSE IF BitAnd(index, 3657) = 9
        THEN Fn("hw_signed_data_transfer",
                <<FALSE, TestBit(index, 8), TestBit(index, 7), TestBit(index, 5),
                  TestBit(index, 4), TestBit(index, 2), TestBit(index, 1)>>)
    ELSE IF BitAnd(index, 3657) = 73
        THEN Fn("hw_signed_data_transfer",
                <<TRUE, TestBit(index, 8), TestBit(index, 7), TestBit(index, 5),
                  TestBit(index, 4), TestBit(index, 2), TestBit(index, 1)>>)
    ELSE IF BitAnd(index, 3584) = 2048
        THEN Fn("block_data_transfer",
                <<TestBit(index, 8), TestBit(index, 7), TestBit(index, 6),
                  TestBit(index, 5), TestBit(index, 4)>>)
    ELSE IF BitAnd(index, 3472) = 256
        THEN Fn("psr_transfer", <<TestBit(index, 9), TestBit(index, 6)>>)
    ELSE IF BitAnd(index, 3072) = 0
        THEN Fn("data_processing", <<TestBit(index, 9), TestBit(index, 4)>>)
    ELSE IF BitAnd(index, 3072) = 1024
        THEN Fn("single_data_transfer",
                <<TestBit(index, 9), TestBit(index, 8), TestBit(index, 7),
                  TestBit(index, 6), TestBit(index, 5), TestBit(index, 4)>>)
    ELSE IF BitAnd(index, 3840) = 3840 THEN Fn("swi", <<FALSE>>)
    ELSE Fn("undefined", <<>>)

\* The table the build script generates: for i in 0..4096 { decode_arm(i) }.
ARM_INSTRUCTIONS == [i \in 0..4095 |-> decode_arm(i)]

\* Arm7TDMI::cycle: ((opcode & 0x0FF0_0000) >> 16) | ((opcode & 0x00F0) >> 4).
op_index(op) == 16 * Field(op, 20, 27) + Field(op, 4, 7)


(***************************************************************************)
(* u32 arithmetic on bit sets.                                             *)
(***************************************************************************)
\* !w
WNot(w) == (0..31) \ w

\* The u32 with upper halfword hi and lower halfword lo.
WordFromHalves(hi, lo) == WordOf(lo) \cup {i + 16 : i \in WordOf(hi)}

\* a + b, wrapping.
WAdd(a, b) ==
    LET lo == Field(a, 0, 15) + Field(b, 0, 15)
        hi == Field(a, 16, 31) + Field(b, 16, 31) + (lo \div 65536)
    IN WordFromHalves(hi % 65536, lo % 65536)

\* a - b, wrapping.
WSub(a, b) == WAdd(WAdd(a, WNot(b)), {0})

\* w.rotate_right(n)
RotateRight(w, n) == {(i + 32 - (n % 32)) % 32 : i \in w}

(***************************************************************************)
(* mmu/bus.rs: the bus.  Each memory array is the function from the        *)
(* offsets that hold a non-zero byte to that byte; every other offset      *)
(* holds 0.                                                                *)
(***************************************************************************)
Get(m, i) == IF i \in DOMAIN m THEN m[i] ELSE 0

Put(m, i, v) ==
    IF v # 0 THEN (i :> v) @@ m
    ELSE IF i \in DOMAIN m THEN [j \in DOMAIN m \ {i} |-> m[j]]
    ELSE m

EmptyMem == [j \in {} |-> 0]

\* vram[address as usize % 0x0001_8000]
VramOffset(address) == address % 98304

\* A mutant of IwramOffset: the on-chip WRAM mirrored every 64 KiB.
IwramOffset64K(address) == (address % 65536) + 262144

\* wram[(address as usize % 0x0000_8000) + 0x0004_0000]
IwramOffset(address) == (address % 32768) + 262144

(***************************************************************************)
(* mmu/timer.rs, mmu/dma.rs: the registers of the four timers and of the   *)
(* four DMA channels.  An enum is the number ConvRaw gives its variant.    *)
(***************************************************************************)
\* a | b on natural numbers.
BitOr(a, b) == (a + b) - BitAnd(a, b)

\* Timer::default()
TimerDefault ==
    [counter |-> 0, reload |-> 0, freq |-> 0, count_up |-> FALSE,
     irq |-> FALSE, start |-> FALSE]

\* From<Timer> for u16: the TMxCNT_H register
tmr_cnt(t) ==
    65280 + (IF t.start THEN 128 ELSE 0) + (IF t.irq THEN 64 ELSE 0)
          + (IF t.count_up THEN 4 ELSE 0) + t.freq

\* Timer::apply_tmr_cnt
apply_tmr_cnt(t, value) ==
    [t EXCEPT !.start = TestBit(value, 7), !.irq = TestBit(value, 6),
              !.count_up = TestBit(value, 2), !.freq = value % 4]

\* Timers::read16, the address relative to 0x0400_0000
timers_read16(timers, address) ==
    IF address \in {256, 260, 264, 268} THEN timers[(address - 256) \div 4].counter
    ELSE IF address \in {258, 262, 266, 270}
        THEN tmr_cnt(timers[(address - 256) \div 4])
    ELSE 0

\* Timers::read8: the odd byte is taken from read16(address & 1)
timers_read8(timers, address) ==
    IF address % 2 = 0 THEN timers_read16(timers, address) % 256
    ELSE timers_read16(timers, address % 2) \div 256

\* Timers::write16, of an even address of the window
timers_write16(timers, address, value) ==
    IF address % 4 = 0
    THEN [timers EXCEPT ![(address - 256) \div 4].reload = value]
    ELSE [timers EXCEPT ![(address - 256) \div 4] = apply_tmr_cnt(@, value)]

\* Timers::write8: the halfword the byte is merged into
timers_half(timers, even) ==
    IF even % 4 = 0 THEN timers[(even - 256) \div 4].reload
    ELSE timers_read16(timers, even)

\* Timers::write8
timers_write8(timers, address, value) ==
    IF address % 2 = 0
    THEN timers_write16(timers, address,
            ((timers_half(timers, address) \div 256) * 256) + value)
    ELSE timers_write16(timers, address - 1,
            (value * 256) + (timers_half(timers, address - 1) % 256))

\* AddrControl
Increment == 0
Decrement == 1
Fixed == 2
IncReload == 3

\* StartTiming
Immediate == 0
VBlank == 1
HBlank == 2
Special == 3

\* DMA::default().  was_enabled is what enable_edge remembers of the enable
\* bit.
DmaDefault ==
    [src |-> 0, dst |-> 0, word_count |-> 0, src_addr_ctrl |-> Increment,
     dst_addr_ctrl |-> Increment, start_timing |-> Immediate, repeat |-> FALSE,
     transfer_type |-> FALSE, pak_drq |-> FALSE, dma_irq |-> FALSE,
     enable |-> FALSE, was_enabled |-> FALSE]

\* From<DMA> for u16: the DMAxCNT_H register
dma_cnt(d) ==
    (IF d.enable THEN 32768 ELSE 0) + (IF d.dma_irq THEN 16384 ELSE 0)
    + (d.start_timing * 4096) + (IF d.pak_drq THEN 2048 ELSE 0)
    + (IF d.transfer_type THEN 1024 ELSE 0) + (IF d.repeat THEN 512 ELSE 0)
    + (d.src_addr_ctrl * 128) + (d.dst_addr_ctrl * 32)

\* DMA::apply_dma_cnt: the source control is (value & 0x110) >> 7
apply_dma_cnt(d, value) ==
    [d EXCEPT !.dst_addr_ctrl = (value \div 32) % 4,
              !.src_addr_ctrl = BitAnd(value, 272) \div 128,
              !.start_timing = (value \div 4096) % 4,
              !.repeat = TestBit(value, 9),
              !.transfer_type = TestBit(value, 10),
              !.pak_drq = TestBit(value, 11),
              !.dma_irq = TestBit(value, 14),
              !.enable = TestBit(value, 15)]

\* The channel and the register of an address of the DMA window
\* 0x00B0..=0x00DF: twelve bytes a channel, SAD, DAD, CNT_L, CNT_H.
dma_ch(address) == (address - 176) \div 12
dma_reg(address) == (address - 176) % 12

\* DMAChannels::read16
dma_read16(dma, address) ==
    IF dma_reg(address) = 10 THEN dma_cnt(dma[dma_ch(address)]) ELSE 0

\* DMAChannels::raw_read16
dma_raw_read16(dma, address) ==
    LET d == dma[dma_ch(address)]
        reg == dma_reg(address) IN
    IF reg = 0 THEN d.src % 65536
    ELSE IF reg = 2 THEN (d.src \div 65536) % 65536
    ELSE IF reg = 4 THEN d.dst % 65536
    ELSE IF reg = 6 THEN (d.dst \div 65536) % 65536
    ELSE IF reg = 8 THEN d.word_count
    ELSE IF reg = 10 THEN dma_read16(dma, address)
    ELSE 0

\* DMAChannels::read8
dma_read8(dma, address) ==
    IF address % 2 = 0 THEN dma_read16(dma, address) % 256
    ELSE dma_read16(dma, address - 1) \div 256

\* DMAChannels::write16 for one channel: 27 address bits, 14 bits of word
\* count (28 and 16 for channel 3); the upper half is or-ed into the address
dma_write_reg(d, ch, reg, value) ==
    IF reg = 0 THEN [d EXCEPT !.src = value]
    ELSE IF reg = 2
        THEN [d EXCEPT !.src =
                BitOr(@, BitAnd(value, IF ch = 3 THEN 4095 ELSE 2047) * 65536)]
    ELSE IF reg = 4 THEN [d EXCEPT !.dst = value]
    ELSE IF reg = 6
        THEN [d EXCEPT !.dst =
                BitOr(@, BitAnd(value, IF ch = 3 THEN 4095 ELSE 2047) * 65536)]
    ELSE IF reg = 8
        THEN [d EXCEPT !.word_count = IF ch = 3 THEN value ELSE value % 16384]
    ELSE IF reg = 10 THEN apply_dma_cnt(d, value)
    ELSE d

\* DMAChannels::write16
dma_write16(dma, address, value) ==
    [dma EXCEPT ![dma_ch(address)] =
        dma_write_reg(@, dma_ch(address), dma_reg(address), value)]

\* DMAChannels::write8
dma_write8(dma, address, value) ==
    IF address % 2 = 0
    THEN dma_write16(dma, address,
            ((dma_raw_read16(dma, address) \div 256) * 256) + value)
    ELSE dma_write16(dma, address - 1,
            (value * 256) + (dma_raw_read16(dma, address - 1) % 256))

\* Bus::read8.  Of the PPU's registers DISPSTAT and VCOUNT are modelled (the
\* others read as their reset value 0).
Read8(b, address) ==
    LET region == address \div 16777216
        addr == address - 67108864
    IN
    IF region = 0 /\ address < 16384 THEN Get(b.bios, address)
    ELSE IF region = 2 THEN Get(b.wram, address % 262144)
    ELSE IF region = 3 THEN Get(b.wram, IwramOffset(address))
    ELSE IF region = 4 THEN
        IF addr = 4 THEN Field(b.ppu.dispstat, 0, 7)
        ELSE IF addr = 5 THEN Field(b.ppu.dispstat, 8, 15)
        ELSE IF addr = 6 THEN b.ppu.vcount % 256
        ELSE IF addr = 7 THEN b.ppu.vcount \div 256
        ELSE IF addr >= 176 /\ addr <= 223 THEN dma_read8(b.dma_channels, addr)
        ELSE IF addr >= 256 /\ addr <= 271 THEN timers_read8(b.timers, addr)
        ELSE IF addr = 304 THEN b.key_input % 256
        ELSE IF addr = 305 THEN b.key_input \div 256
        ELSE IF addr = 512 THEN b.ie % 256
        ELSE IF addr = 513 THEN b.ie \div 256
        ELSE IF addr = 514 THEN b.iff % 256
        ELSE IF addr = 515 THEN b.iff \div 256
        ELSE IF addr = 520 THEN (IF 0 \in b.ime THEN 1 ELSE 0)
        ELSE IF addr = 521 THEN Field(b.ime, 8, 15)
        ELSE IF addr = 522 THEN Field(b.ime, 16, 23)
        ELSE IF addr = 523 THEN Field(b.ime, 24, 31)
        ELSE 0
    ELSE IF region = 5 THEN Get(b.palette_ram, address % 1024)
    ELSE IF region = 6 THEN Get(b.vram, VramOffset(address))
    ELSE IF region = 7 THEN Get(b.oam, address % 1024)
    ELSE IF region >= 8 /\ region <= 13 THEN Get(b.rom, address % 16777216)
    ELSE IF region >= 14 /\ region <= 15 THEN
        IF address = 234881024 THEN 98
        ELSE IF address = 234881025 THEN 19
        ELSE Get(b.sram, address % 65536)
    ELSE 0

\* set_bits!(ime.0, lo..=lo+7, value) on the u32 IME.
SetImeByte(ime, lo, value) ==
    (ime \ (lo..(lo + 7))) \cup {i + lo : i \in WordOf(value)}

\* A mutant of ClearIf: the written byte is stored instead of acknowledging.
ClearIfStore(iff, value, shift) ==
    IF shift = 0 THEN (iff \div 256) * 256 + value ELSE value * 256 + (iff % 256)

\* (iff & !((value as u16) << shift)) & 0x3FFF
ClearIf(iff, value, shift) ==
    BitAnd(BitAnd(iff, 65535 - (value * (2 ^ shift))), 16383)

\* A mutant of WriteDispstat: a write of the low byte replaces all its bits.
WriteDispstatAll(dispstat, addr, value) ==
    IF addr = 4 THEN (dispstat \cap (8..15)) \cup WordOf(value)
    ELSE {i + 8 : i \in WordOf(value)} \cup (dispstat \cap (0..7))

\* Ppu::write8 and write16 at DISPSTAT: the written byte replaces its half of
\* the register, and bits 0..2 (the status flags) keep their value.
WriteDispstat(dispstat, addr, value) ==
    IF addr = 4 THEN (dispstat \cap (8..15)) \cup (WordOf(value) \ (0..2))
                     \cup (dispstat \cap (0..2))
    ELSE {i + 8 : i \in WordOf(value)} \cup (dispstat \cap (0..7))

\* value as i16
I16(value) == IF value >= 32768 THEN value - 65536 ELSE value

\* Ppu::raw_read16 at the affine registers BGxPB, BGxPD, BGxX and BGxY of
\* BG2 (0x20..0x2F) and BG3 (0x30..0x3F); BGxPA and BGxPC are not modelled.
ppu_raw_read16(ppu, address) ==
    LET bg == (address - 32) \div 16
        reg == (address - 32) % 16
    IN  IF reg = 2 THEN ppu.bgxpb[bg] % 65536
        ELSE IF reg = 6 THEN ppu.bgxpd[bg] % 65536
        ELSE IF reg = 8 THEN ppu.bgxx[bg] % 65536
        ELSE IF reg = 10 THEN (ppu.bgxx[bg] \div 65536) % 65536
        ELSE IF reg = 12 THEN ppu.bgxy[bg] % 65536
        ELSE IF reg = 14 THEN (ppu.bgxy[bg] \div 65536) % 65536
        ELSE 0

\* Ppu::write16 at the affine registers: BGxPB and BGxPD take the value as
\* an i16; a halfword of BGxX or BGxY replaces bits 0..15 or 16..27 of the
\* reference point, which is then copied to the internal register.
ppu_write16(ppu, address, value) ==
    LET bg == (address - 32) \div 16
        reg == (address - 32) % 16
        lo(r) == ((r \div 65536) * 65536) + value
        hi(r) == ((r \div 268435456) * 268435456) + ((value % 4096) * 65536)
                    + (r % 65536)
    IN  IF reg = 2 THEN [ppu EXCEPT !.bgxpb[bg] = I16(value)]
        ELSE IF reg = 6 THEN [ppu EXCEPT !.bgxpd[bg] = I16(value)]
        ELSE IF reg = 8 THEN [ppu EXCEPT !.bgxx[bg] = lo(@),
                                         !.internal_ref_xx[bg] = lo(ppu.bgxx[bg])]
        ELSE IF reg = 10 THEN [ppu EXCEPT !.bgxx[bg] = hi(@),
                                          !.internal_ref_xx[bg] = hi(ppu.bgxx[bg])]
        ELSE IF reg = 12 THEN [ppu EXCEPT !.bgxy[bg] = lo(@),
                                          !.internal_ref_xy[bg] = lo(ppu.bgxy[bg])]
        ELSE IF reg = 14 THEN [ppu EXCEPT !.bgxy[bg] = hi(@),
                                          !.internal_ref_xy[bg] = hi(ppu.bgxy[bg])]
        ELSE ppu

\* Ppu::write8: the byte replaces its half of raw_read16's halfword, which
\* write16 then stores.
ppu_write8(ppu, address, value) ==
    LET even == (address \div 2) * 2
        raw == ppu_raw_read16(ppu, even)
    IN  IF address % 2 = 0
        THEN ppu_write16(ppu, even, ((raw \div 256) * 256) + value)
        ELSE ppu_write16(ppu, even, (value * 256) + (raw % 256))

\* Bus::write8.  Of the PPU's registers DISPSTAT and the affine registers of
\* ppu_write16 are modelled; writes to the other PPU registers are not.
Write8(b, address, value) ==
    LET region == address \div 16777216
        addr == address - 67108864
    IN
    IF region = 2 THEN [b EXCEPT !.wram = Put(@, address % 262144, value)]
    ELSE IF region = 3 THEN [b EXCEPT !.wram = Put(@, IwramOffset(address), value)]
    ELSE IF region = 4 THEN
        IF addr \in {4, 5}
            THEN [b EXCEPT !.ppu.dispstat = WriteDispstat(@, addr, value)]
        ELSE IF addr >= 32 /\ addr <= 63
            THEN [b EXCEPT !.ppu = ppu_write8(@, addr, value)]
        ELSE IF addr >= 176 /\ addr <= 223
            THEN [b EXCEPT !.dma_channels = dma_write8(@, addr, value)]
        ELSE IF addr >= 256 /\ addr <= 271
            THEN [b EXCEPT !.timers = timers_write8(@, addr, value)]
        ELSE IF addr = 512 THEN [b EXCEPT !.ie = (@ \div 256) * 256 + value]
        ELSE IF addr = 513 THEN [b EXCEPT !.ie = value * 256 + (@ % 256)]
        ELSE IF addr = 514 THEN [b EXCEPT !.iff = ClearIf(@, value, 0)]
        ELSE IF addr = 515 THEN [b EXCEPT !.iff = ClearIf(@, value, 8)]
        ELSE IF addr = 520
            THEN [b EXCEPT !.ime = IF value % 2 = 1 THEN @ \cup {0} ELSE @ \ {0}]
        ELSE IF addr = 521 THEN [b EXCEPT !.ime = SetImeByte(@, 8, value)]
        ELSE IF addr = 522 THEN [b EXCEPT !.ime = SetImeByte(@, 16, value)]
        ELSE IF addr = 523 THEN [b EXCEPT !.ime = SetImeByte(@, 24, value)]
        ELSE IF addr = 769 THEN [b EXCEPT !.halt = (value \div 128) = 0]
        ELSE b
    ELSE IF region = 5 THEN [b EXCEPT !.palette_ram = Put(@, address % 1024, value)]
    ELSE IF region = 6 THEN [b EXCEPT !.vram = Put(@, VramOffset(address), value)]
    ELSE IF region = 7 THEN [b EXCEPT !.oam = Put(@, address % 1024, value)]
    ELSE IF region >= 14 /\ region <= 15
        THEN [b EXCEPT !.sram = Put(@, address % 65536, value)]
    ELSE b

\* A mutant of Read16: the two bytes taken in big-endian order.
Read16BigEndian(b, address) == 256 * Read8(b, address) + Read8(b, address + 1)

\* Mcu::read16: u16::from_le_bytes([read8(address), read8(address + 1)])
Read16(b, address) == Read8(b, address) + 256 * Read8(b, address + 1)

\* Mcu::write16: the low byte at address, the high byte at address + 1.
Write16(b, address, value) ==
    Write8(Write8(b, address, value % 256), address + 1, value \div 256)

\* Mcu::read32, as a u32.
Read32(b, address) ==
    WordFromHalves(Read16(b, address + 2), Read16(b, address))

\* Mcu::write32 of the u32 value.
Write32(b, address, value) ==
    Write16(Write16(b, address, Field(value, 0, 15)), address + 2, Field(value, 16, 31))

\* Ppu::default(): the registers and the state machine's position.  dispstat
\* is the set of its 1 bits; bgxx, bgxy (i32), bgxpb, bgxpd (i16) and the
\* internal reference points (i32) are indexed by bg - 2 and hold the signed
\* values.  The layers, windows and the frame buffer are not part of the
\* model.
PpuDefault ==
    [dispstat |-> {}, vcount |-> 0, prev_mode |-> "HDraw",
     current_mode |-> "HDraw", cycle |-> 0, scanlines |-> 0, rendered |-> 0,
     bgxx |-> [bg \in 0..1 |-> 0], bgxy |-> [bg \in 0..1 |-> 0],
     bgxpb |-> [bg \in 0..1 |-> 0], bgxpd |-> [bg \in 0..1 |-> 0],
     internal_ref_xx |-> [bg \in 0..1 |-> 0],
     internal_ref_xy |-> [bg \in 0..1 |-> 0]]

\* Bus::default(), with the cartridge Arm7TDMI::new installs.
BusDefault ==
    [bios |-> EmptyMem, wram |-> EmptyMem, palette_ram |-> EmptyMem,
     vram |-> EmptyMem, oam |-> EmptyMem, rom |-> EmptyMem, sram |-> EmptyMem,
     ppu |-> PpuDefault,
     timers |-> [id \in 0..3 |-> TimerDefault],
     dma_channels |-> [ch \in 0..3 |-> DmaDefault],
     dma_in_progress |-> [ch \in 0..3 |-> FALSE],
     key_input |-> 1023, ime |-> {}, ie |-> 0, iff |-> 0, halt |-> FALSE]


(***************************************************************************)
(* arm/interpreter/arm7tdmi.rs: the CPU state.                             *)
(***************************************************************************)
Banks == {"sys_regs", "und_regs", "abt_regs", "svc_regs", "irq_regs", "fiq_regs"}

\* bank!(spsr: Cpsr(0), sp: 0)
BankedRegisters == [spsr |-> {}, bank |-> [i \in 0..6 |-> {}]]

\* A ROM image: its length and its bytes (the non-zero ones, by offset).
RomImage(len, bytes) == [len |-> len, bytes |-> bytes]

\* The empty image.
NoRom == RomImage(0, EmptyMem)

\* Arm7TDMI::new: rom_arr[0..(rom.len())].copy_from_slice(rom), on an array of
\* 0x0200_0000 zero bytes; a longer image makes the slice index panic.
rom_arr(image) ==
    [k \in {j \in DOMAIN image.bytes : j < image.len} |-> image.bytes[k]]

\* Arm7TDMI::new of the empty image
Arm7TDMI_new ==
    [regs |-> [r \in 0..15 |-> {}],
     cpsr |-> WordOf(31),
     spsr |-> {},
     banked_regs |-> [b \in Banks |-> BankedRegisters],
     branch |-> FALSE,
     bus |-> BusDefault,
     panic |-> FALSE]

\* A panic: the process ends in whatever state it had reached.
Panic(c) == [c EXCEPT !.panic = TRUE]

\* Cpsr::mode(): the mode bits 0..=4, as the u8 that Mode::try_from is given.
ModeBits(psr) == Field(psr, 0, 4)

\* The values of enum Mode: User, Fiq, Irq, Supervisor, Abort, Undefined, System.
Modes == {16, 17, 18, 19, 23, 27, 31}

\* Cpsr::mode().is_ok()
ModeOk(psr) == ModeBits(psr) \in Modes

\* Cpsr::set_mode
SetMode(psr, mode) == (psr \ (0..4)) \cup WordOf(mode)

\* Index<Mode> for Registers
BankOf(mode) ==
    CASE mode = 16 \/ mode = 31 -> "sys_regs"
      [] mode = 18 -> "irq_regs"
      [] mode = 19 -> "svc_regs"
      [] mode = 23 -> "abt_regs"
      [] mode = 27 -> "und_regs"
      [] mode = 17 -> "fiq_regs"

\* Arm7TDMI::swap_regs.  With Fiq as either mode the slice
\* sys_regs.bank[8..=14] of the 7-element bank is out of range: a panic.
swap_regs(c, current_mode, new_mode) ==
    IF current_mode = new_mode THEN c
    ELSE IF current_mode = 17 \/ new_mode = 17 THEN Panic(c)
    ELSE
        LET cur == BankOf(current_mode)
            new == BankOf(new_mode)
            c1 == [c EXCEPT !.banked_regs[cur].spsr = c.spsr]
            c2 == [c1 EXCEPT !.spsr =
                      IF new_mode = 31 \/ new_mode = 16 THEN c1.cpsr
                      ELSE c1.banked_regs[new].spsr]
            c3 == [c2 EXCEPT !.banked_regs[cur].bank[5] = c2.regs[13],
                             !.banked_regs[cur].bank[6] = c2.regs[14]]
        IN [c3 EXCEPT !.regs[13] = c3.banked_regs[new].bank[5],
                      !.regs[14] = c3.banked_regs[new].bank[6]]

\* Arm7TDMI::swi::<T>
swi(c, T) ==
    LET c1 == [c EXCEPT !.cpsr = (@ \ {5}) \cup {7}] IN
    IF ~ModeOk(c1.cpsr) THEN Panic(c1)
    ELSE
        LET c2 == swap_regs(c1, ModeBits(c1.cpsr), 19) IN
        IF c2.panic THEN c2
        ELSE [c2 EXCEPT !.cpsr = SetMode(@, 19),
                        !.regs[14] = WAdd(c2.regs[15], IF T THEN {1} ELSE {2}),
                        !.spsr = c.cpsr,
                        !.branch = TRUE,
                        !.regs[15] = WordOf(8)]

\* Arm7TDMI::dispatch_irq
dispatch_irq(c) ==
    IF 0 \in c.bus.ime /\ 7 \notin c.cpsr /\ BitAnd(c.bus.iff, c.bus.ie) # 0 THEN
        LET c1 == [c EXCEPT !.cpsr = (@ \ {5}) \cup {7}] IN
        IF ~ModeOk(c1.cpsr) THEN Panic(c1)
        ELSE
            LET c2 == swap_regs(c1, ModeBits(c1.cpsr), 18) IN
            IF c2.panic THEN c2
            ELSE [c2 EXCEPT !.cpsr = SetMode(@, 18),
                            !.regs[14] = WAdd(c2.regs[15], {2}),
                            !.spsr = c.cpsr,
                            !.regs[15] = WordOf(24)]
    ELSE c

(***************************************************************************)
(* The CPU's view of the bus: addresses are u32, 0x1000_0000 and above is   *)
(* unmapped (reads give 0, writes are dropped), address + 1 wraps.          *)
(***************************************************************************)
CpuRead8(b, address) ==
    IF address \cap (28..31) # {} THEN 0 ELSE Read8(b, ValueOf(address))

CpuWrite8(b, address, value) ==
    IF address \cap (28..31) # {} THEN b ELSE Write8(b, ValueOf(address), value)

\* Mcu::read32 at a u32 address
CpuRead32(b, address) ==
    WordFromHalves(
        CpuRead8(b, WAdd(address, {1})) + 256 * CpuRead8(b, WAdd(address, {0, 1})),
        CpuRead8(b, address) + 256 * CpuRead8(b, WAdd(address, {0})))

\* Mcu::write32 at a u32 address
CpuWrite32(b, address, value) ==
    LET b0 == CpuWrite8(b, address, Field(value, 0, 7))
        b1 == CpuWrite8(b0, WAdd(address, {0}), Field(value, 8, 15))
        b2 == CpuWrite8(b1, WAdd(address, {1}), Field(value, 16, 23))
    IN CpuWrite8(b2, WAdd(address, {0, 1}), Field(value, 24, 31))

(***************************************************************************)
(* The barrel shifter.  A shift by 32 or more, and amount - 1 at amount 0, *)
(* behave as in the release profile: the shift amount is taken modulo 32   *)
(* and the subtraction wraps.                                              *)
(***************************************************************************)
\* w << n, n < 32
Shl(w, n) == {i + n : i \in w} \cap (0..31)

\* w >> n, n < 32
Shr(w, n) == {i - n : i \in {j \in w : j >= n}}

\* a ^ b
WXor(a, b) == (a \ b) \cup (b \ a)

\* a >= b on u32
WGe(a, b) ==
    \/ Field(a, 16, 31) > Field(b, 16, 31)
    \/ Field(a, 16, 31) = Field(b, 16, 31) /\ Field(a, 0, 15) >= Field(b, 0, 15)

\* Arm7TDMI::lsl, as <<result, carry out>>
lsl(c, rm, amount, reg) ==
    IF ~reg THEN
        <<Shl(rm, amount), IF amount = 0 THEN 29 \in c.cpsr ELSE (32 - amount) \in rm>>
    ELSE IF amount = 0 THEN <<rm, 29 \in c.cpsr>>
    ELSE IF amount < 32 THEN <<Shl(rm, amount), (32 - amount) \in rm>>
    ELSE IF amount = 32 THEN <<{}, 0 \in rm>>
    ELSE <<{}, FALSE>>

\* A mutant of lsr: the immediate amount 0 is not taken as 32.
lsr_no_shift_at_zero(c, rm, amount, reg) ==
    IF amount = 0 THEN <<rm, 29 \in c.cpsr>>
    ELSE IF amount < 32 THEN <<Shr(rm, amount), (amount - 1) \in rm>>
    ELSE IF amount = 32 THEN <<{}, 31 \in rm>>
    ELSE <<{}, FALSE>>

\* Arm7TDMI::lsr
lsr(c, rm, amount, reg) ==
    IF ~reg THEN
        IF amount = 0 THEN <<{}, 31 \in rm>>
        ELSE <<Shr(rm, amount), (amount - 1) \in rm>>
    ELSE IF amount = 0 THEN <<rm, 29 \in c.cpsr>>
    ELSE IF amount < 32 THEN <<Shr(rm, amount), (amount - 1) \in rm>>
    ELSE IF amount = 32 THEN <<{}, 31 \in rm>>
    ELSE <<{}, FALSE>>

\* Arm7TDMI::asr
asr(c, rm, amount, reg) ==
    IF reg /\ amount = 0 THEN <<rm, 29 \in c.cpsr>>
    ELSE
        LET carry == ((amount + 31) % 32) \in rm
            fill == IF 31 \in rm THEN {31 - (i % 32) : i \in 0..(amount - 1)} ELSE {}
        IN IF amount = 0 \/ amount >= 32
           THEN <<IF 31 \in rm THEN 0..31 ELSE {}, 31 \in rm>>
           ELSE <<Shr(rm, amount % 32) \cup fill, carry>>

\* Arm7TDMI::ror
ror(c, rm, amount, reg) ==
    IF amount = 0 THEN
        IF reg THEN <<rm, 29 \in c.cpsr>>
        ELSE <<Shr(rm, 1) \cup (IF 29 \in c.cpsr THEN {31} ELSE {}), 0 \in rm>>
    ELSE <<RotateRight(rm, amount), ((amount - 1) % 32) \in rm>>

\* Arm7TDMI::barrel_shifter::<I>, op being the opcode (its low 16 bits are read)
barrel_shifter(c, I, op) ==
    IF I THEN
        LET rot == Field(op, 8, 11)
            res == RotateRight(op \cap (0..7), rot * 2)
        IN <<res, IF rot = 0 THEN 29 \in c.cpsr ELSE 31 \in res>>
    ELSE
        LET m == Field(op, 0, 3)
            byreg == 4 \in op
            rm0 == IF m = 15 THEN WAdd(c.regs[m], {3}) ELSE c.regs[m]
            rm == IF byreg /\ m = 15 THEN WAdd(rm0, {2}) ELSE rm0
            amount == IF byreg THEN Field(c.regs[Field(op, 8, 11)], 0, 7)
                      ELSE Field(op, 7, 11)
            shift_type == Field(op, 5, 6)
        IN CASE shift_type = 0 -> lsl(c, rm, amount, byreg)
             [] shift_type = 1 -> lsr(c, rm, amount, byreg)
             [] shift_type = 2 -> asr(c, rm, amount, byreg)
             [] shift_type = 3 -> ror(c, rm, amount, byreg)

\* Arm7TDMI::cond
cond(c, cc) ==
    LET n == 31 \in c.cpsr
        z == 30 \in c.cpsr
        cf == 29 \in c.cpsr
        v == 28 \in c.cpsr
    IN CASE cc = 0 -> z
         [] cc = 1 -> ~z
         [] cc = 2 -> cf
         [] cc = 3 -> ~cf
         [] cc = 4 -> n
         [] cc = 5 -> ~n
         [] cc = 6 -> v
         [] cc = 7 -> ~v
         [] cc = 8 -> cf /\ ~z
         [] cc = 9 -> ~cf \/ z
         [] cc = 10 -> n = v
         [] cc = 11 -> n # v
         [] cc = 12 -> ~z /\ (n = v)
         [] cc = 13 -> z \/ (n # v)
         [] cc = 14 \/ cc = 15 -> TRUE

(***************************************************************************)
(* ARM instruction handlers.  op is the opcode.  A handler is written as a *)
(* chain of operators, each handing what it computed to the next, in the   *)
(* order of the handler's statements.                                      *)
(***************************************************************************)
\* psr_transfer, MSR: the value written to the PSR source_psr from rm.  In
\* User mode only the flag bits are taken; otherwise bit 4 of rm is forced
\* and the flag and control fields are taken as bits 19 and 16 of op say.
msr_value(mode, op, source_psr, rm) ==
    IF mode = 16 THEN (rm \cap (24..31)) \cup (source_psr \cap (0..23))
    ELSE
        LET p1 == IF 19 \in op
                  THEN ((rm \cup {4}) \cap (24..31)) \cup (source_psr \cap (0..23))
                  ELSE source_psr
        IN IF 16 \in op THEN ((rm \cup {4}) \cap (0..7)) \cup (p1 \ (0..7)) ELSE p1

\* cpsr.set_mode(mode) after a swap_regs that returned
set_mode_after_swap(c, mode) ==
    IF c.panic THEN c ELSE [c EXCEPT !.cpsr = SetMode(@, mode)]

\* psr_transfer, MSR to the CPSR: the mode change that follows the write;
\* new_mode is rm & 0x1F, of the rm that was read (bit 4 not forced).
msr_change_mode(c, current_mode, new_mode, op) ==
    IF new_mode \in Modes /\ current_mode # new_mode /\ 16 \in op
    THEN set_mode_after_swap(swap_regs(c, current_mode, new_mode), new_mode)
    ELSE c

\* psr_transfer, MSR
msr(c, PSR, op, rm) ==
    IF PSR THEN [c EXCEPT !.spsr = msr_value(ModeBits(c.cpsr), op, c.spsr, rm)]
    ELSE msr_change_mode(
            [c EXCEPT !.cpsr = msr_value(ModeBits(c.cpsr), op, c.cpsr, rm)],
            ModeBits(c.cpsr), ModeBits(rm), op)

\* Arm7TDMI::psr_transfer::<I, PSR>
psr_transfer(c, I, PSR, op) ==
    IF ~ModeOk(c.cpsr) THEN c
    ELSE IF 21 \notin op
    THEN [c EXCEPT !.regs[Field(op, 12, 15)] = IF PSR THEN c.spsr ELSE c.cpsr]
    ELSE msr(c, PSR, op,
             IF ~I THEN c.regs[Field(op, 0, 3)] ELSE barrel_shifter(c, I, op)[1])

\* fl!(a, b, +, ..): <<result, C, V>>
fl_add(a, b) ==
    LET lo == Field(a, 0, 15) + Field(b, 0, 15)
        hi == Field(a, 16, 31) + Field(b, 16, 31) + (lo \div 65536)
        res == WordFromHalves(hi % 65536, lo % 65536)
    IN <<res, hi >= 65536, ((31 \in a) = (31 \in b)) /\ ((31 \in a) # (31 \in res))>>

\* A mutant of fl_sub_flags: C is the borrow.
fl_sub_flags_borrow(a, b, bk, res) ==
    <<res, ~WGe(a, bk), 31 \in (WXor(a, b) \cap WXor(a, res))>>

\* The flags of fl!(a, b, -, ..) for the subtrahend bk and the result res
fl_sub_flags(a, b, bk, res) ==
    <<res, WGe(a, bk), 31 \in (WXor(a, b) \cap WXor(a, res))>>

\* fl!(a, b, -, ..) with k = 0 and fl!(a, b, k, -, ..): <<result, C, V>>
fl_sub(a, b, k) == fl_sub_flags(a, b, WAdd(b, k), WSub(a, WAdd(b, k)))

\* Cpsr::set_c, set_v, set_z, set_n: bit i of the PSR becomes v.
SetFlag(psr, i, v) == IF v THEN psr \cup {i} ELSE psr \ {i}

\* data_processing: the operations that go through fl!
Arithmetic == {2, 3, 4, 5, 6, 7, 10, 11}

\* data_processing: let result = match operation { .. }, as <<result, C, V>>;
\* C and V are those fl! computes, and are not used for the other operations.
alu(operation, rn, op2, carry) ==
    CASE operation = 0 \/ operation = 8 -> <<rn \cap op2, FALSE, FALSE>>
      [] operation = 1 \/ operation = 9 -> <<WXor(rn, op2), FALSE, FALSE>>
      [] operation = 2 \/ operation = 10 -> fl_sub(rn, op2, {})
      [] operation = 3 -> fl_sub(op2, rn, {})
      [] operation = 4 \/ operation = 11 -> fl_add(rn, op2)
      [] operation = 5 -> fl_add(rn, WAdd(op2, IF carry THEN {0} ELSE {}))
      [] operation = 6 -> fl_sub(rn, op2, IF carry THEN {} ELSE {0})
      [] operation = 7 -> fl_sub(op2, rn, IF carry THEN {} ELSE {0})
      [] operation = 12 -> <<rn \cup op2, FALSE, FALSE>>
      [] operation = 13 -> <<op2, FALSE, FALSE>>
      [] operation = 14 -> <<rn \ op2, FALSE, FALSE>>
      [] operation = 15 -> <<WNot(op2), FALSE, FALSE>>

\* self.cpsr.set_cpsr(psr) after a swap_regs that returned
set_cpsr_after_swap(c, psr) == IF c.panic THEN c ELSE [c EXCEPT !.cpsr = psr]

\* data_processing: if S { .. }, on the CPU whose C and V fl! has set
dp_set_flags(c, S, op, carry_out, result) ==
    IF ~S THEN c
    ELSE IF Field(op, 12, 15) = 15 THEN
        IF ~ModeOk(c.cpsr) THEN c
        ELSE IF ~ModeOk(c.spsr) THEN Panic(c)
        ELSE set_cpsr_after_swap(
                swap_regs(c, ModeBits(c.cpsr), ModeBits(c.spsr)), c.spsr)
    ELSE [c EXCEPT !.cpsr =
            SetFlag(SetFlag(SetFlag(@, 30, result = {}), 31, 31 \in result), 29,
                    IF Field(op, 21, 24) \in Arithmetic THEN 29 \in c.cpsr
                    ELSE carry_out)]

\* data_processing: if !is_intmd { .. }
dp_write_back(c, op, result) ==
    IF c.panic \/ Field(op, 21, 24) \in 8..11 THEN c
    ELSE [c EXCEPT !.branch = (Field(op, 12, 15) = 15),
                   !.regs[Field(op, 12, 15)] = result]

\* data_processing, from the ALU's <<result, C, V>> on
dp_finish(c, S, op, carry_out, r) ==
    dp_write_back(
        dp_set_flags(
            IF Field(op, 21, 24) \in Arithmetic /\ (S \/ Field(op, 21, 24) \in 8..11)
            THEN [c EXCEPT !.cpsr = SetFlag(SetFlag(@, 29, r[2]), 28, r[3])]
            ELSE c,
            S, op, carry_out, r[1]),
        op, r[1])

\* data_processing: the operand rn; r15 reads as itself + 8, or + 12 with a
\* register-specified shift
dp_rn(c, I, op) ==
    IF Field(op, 16, 19) = 15
    THEN (IF ~I /\ 4 \in op THEN WAdd(c.regs[15], {2, 3}) ELSE WAdd(c.regs[15], {3}))
    ELSE c.regs[Field(op, 16, 19)]

\* data_processing, from the shifter's <<op2, carry_out>> and rn on
dp_execute(c, S, op, sh, rn) ==
    dp_finish(c, S, op, sh[2], alu(Field(op, 21, 24), rn, sh[1], 29 \in c.cpsr))

\* Arm7TDMI::data_processing::<I, S>
data_processing(c, I, S, op) ==
    dp_execute(c, S, op, barrel_shifter(c, I, op), dp_rn(c, I, op))

\* (0..16).filter(|i| opcode & (1 << i) != 0), in ascending order
RegList(op) ==
    [k \in 1..Cardinality(op \cap (0..15)) |->
        CHOOSE r \in op \cap (0..15) :
            Cardinality({x \in op \cap (0..15) : x < r}) = k - 1]

\* A mutant of bdt_advance: the address ascends whatever U is.
bdt_advance_up(address, U) == WAdd(address, {2})

\* address + 4 or address - 4
bdt_advance(address, U) == IF U THEN WAdd(address, {2}) ELSE WSub(address, {2})

\* block_data_transfer, a load: the destination of the word v read for r
bdt_load_into(c, r, f, v) ==
    IF ~f.user_bank THEN [c EXCEPT !.regs[r] = v]
    ELSE IF r > 6 THEN Panic(c)
    ELSE [c EXCEPT !.banked_regs["sys_regs"].bank[r] = v]

\* block_data_transfer, a store: rb in the list and not first
bdt_base_not_first(reg_list, r, f) ==
    r = f.rn /\ ((f.U /\ reg_list[1] # r) \/ (~f.U /\ reg_list[Len(reg_list)] # r))

\* block_data_transfer, a store: the word written for r
bdt_store_value(c, reg_list, r, f) ==
    IF bdt_base_not_first(reg_list, r, f) THEN
        IF f.U THEN WAdd(c.regs[f.rn], WordOf(4 * Len(reg_list)))
        ELSE WSub(c.regs[f.rn], WordOf(4 * Len(reg_list)))
    ELSE IF ~f.user_bank THEN (IF r = 15 THEN WAdd(c.regs[r], {2, 3}) ELSE c.regs[r])
    ELSE c.banked_regs["sys_regs"].bank[r]

\* block_data_transfer: the transfer of register r at the address a
bdt_transfer(c, a, reg_list, r, f) ==
    IF f.L THEN
        bdt_load_into(IF f.S /\ r = 15 THEN [c EXCEPT !.cpsr = c.spsr] ELSE c,
                      r, f, CpuRead32(c.bus, a \ {0, 1}))
    ELSE IF ~bdt_base_not_first(reg_list, r, f) /\ f.user_bank /\ r > 6 THEN Panic(c)
    ELSE [c EXCEPT !.bus = CpuWrite32(@, a \ {0, 1}, bdt_store_value(c, reg_list, r, f))]

\* block_data_transfer: one iteration of the loop from the pre-adjusted
\* address a, as <<CPU, address>>
bdt_iteration(c, a, reg_list, r, f) ==
    <<bdt_transfer(c, a, reg_list, r, f), IF ~f.P THEN bdt_advance(a, f.U) ELSE a>>

RECURSIVE bdt_loop(_, _, _, _, _)
RECURSIVE bdt_continue(_, _, _, _)
\* block_data_transfer: for r in &reg_list { .. }, from position k on; f
\* holds the const parameters, rn and user_bank.
bdt_loop(c, address, reg_list, k, f) ==
    IF k > Len(reg_list) \/ c.panic THEN <<c, address>>
    ELSE bdt_continue(
            bdt_iteration(c, IF f.P THEN bdt_advance(address, f.U) ELSE address,
                          reg_list, reg_list[k], f),
            reg_list, k + 1, f)

\* The loop goes on from the <<CPU, address>> of an iteration.
bdt_continue(st, reg_list, k, f) == bdt_loop(st[1], st[2], reg_list, k, f)

\* block_data_transfer: after the loop, the branch flag and the writeback
bdt_finish(st, W, L, op) ==
    IF st[1].panic THEN st[1]
    ELSE IF (W /\ L /\ Field(op, 16, 19) \notin op \cap (0..15)) \/ (~L /\ W)
    THEN [st[1] EXCEPT !.branch = L /\ 15 \in op, !.regs[Field(op, 16, 19)] = st[2]]
    ELSE [st[1] EXCEPT !.branch = L /\ 15 \in op]

\* block_data_transfer, empty register list: the writeback of rn
bdt_empty_write_back(c, U, rn) ==
    [c EXCEPT !.regs[rn] = IF U THEN WAdd(@, WordOf(64)) ELSE WSub(@, WordOf(64))]

\* block_data_transfer, empty register list: r15 is transferred at address
bdt_empty(c, U, L, rn, address) ==
    bdt_empty_write_back(
        IF L THEN [c EXCEPT !.branch = TRUE,
                            !.regs[15] = CpuRead32(c.bus, address \ {0, 1})]
        ELSE [c EXCEPT !.bus = CpuWrite32(@, address \ {0, 1},
                                          WAdd(c.regs[15], {2, 3}) \ {0, 1})],
        U, rn)

\* reg_list.reverse()
Reverse(list) == [k \in 1..Len(list) |-> list[Len(list) + 1 - k]]

\* Arm7TDMI::block_data_transfer::<P, U, S, W, L>
block_data_transfer(c, P, U, S, W, L, op) ==
    IF op \cap (0..15) = {} THEN
        bdt_empty(c, U, L, Field(op, 16, 19),
                  IF ~U /\ ~P THEN WSub(c.regs[Field(op, 16, 19)], WordOf(60))
                  ELSE IF ~U /\ P THEN WSub(c.regs[Field(op, 16, 19)], WordOf(64))
                  ELSE IF U /\ P THEN WAdd(c.regs[Field(op, 16, 19)], {2})
                  ELSE c.regs[Field(op, 16, 19)])
    ELSE
        bdt_finish(
            bdt_loop(c, c.regs[Field(op, 16, 19)],
                     IF U THEN RegList(op) ELSE Reverse(RegList(op)), 1,
                     [P |-> P, U |-> U, S |-> S, L |-> L, rn |-> Field(op, 16, 19),
                      user_bank |-> S /\ 15 \notin op]),
            W, L, op)

\* Arm7TDMI::undefined and Arm7TDMI::t_undefined: panic!(..)
undefined(c) == Panic(c)

(***************************************************************************)
(* build.rs: the generated THUMB look-up table, and Arm7TDMI::cycle.       *)
(***************************************************************************)
\* decode_thumb(index).  The masks are build.rs's binary literals:
\* 0b1111_1000 = 248, 0b1110_0000 = 224, 0b1111_1100 = 252, 0b1111_0010 = 242,
\* 0b1111_0000 = 240, 0b1111_0110 = 246.
decode_thumb(index) ==
    IF BitAnd(index, 248) = 24 THEN Fn("add_sub", <<TestBit(index, 2)>>)
    ELSE IF BitAnd(index, 224) = 0 THEN Fn("mov_shifted_reg", <<>>)
    ELSE IF BitAnd(index, 224) = 32 THEN Fn("mov_cmp_alu_imm", <<>>)
    ELSE IF BitAnd(index, 252) = 64 THEN Fn("alu_ops", <<>>)
    ELSE IF BitAnd(index, 252) = 68 THEN Fn("hi_reg_op_bx", <<>>)
    ELSE IF BitAnd(index, 248) = 72 THEN Fn("pc_rel_load", <<>>)
    ELSE IF BitAnd(index, 242) = 80
        THEN Fn("load_store_reg", <<TestBit(index, 3), TestBit(index, 2)>>)
    ELSE IF BitAnd(index, 242) = 82
        THEN Fn("load_store_hw_signext", <<TestBit(index, 3), TestBit(index, 2)>>)
    ELSE IF BitAnd(index, 224) = 96
        THEN Fn("load_store_imm", <<TestBit(index, 3), TestBit(index, 4)>>)
    ELSE IF BitAnd(index, 240) = 128 THEN Fn("load_store_hw", <<TestBit(index, 3)>>)
    ELSE IF BitAnd(index, 240) = 144 THEN Fn("sp_rel_load_store", <<TestBit(index, 3)>>)
    ELSE IF BitAnd(index, 240) = 160 THEN Fn("load_addr", <<TestBit(index, 3)>>)
    ELSE IF BitAnd(index, 255) = 176 THEN Fn("add_sp", <<>>)
    ELSE IF BitAnd(index, 246) = 180
        THEN Fn("push_pop", <<TestBit(index, 3), TestBit(index, 0)>>)
    ELSE IF BitAnd(index, 240) = 192 THEN Fn("ldm_stm", <<TestBit(index, 3)>>)
    ELSE IF BitAnd(index, 255) = 223 THEN Fn("t_swi", <<>>)
    ELSE IF BitAnd(index, 240) = 208 THEN Fn("cond_branch", <<>>)
    ELSE IF BitAnd(index, 240) = 224 THEN Fn("branch", <<>>)
    ELSE IF BitAnd(index, 240) = 240 THEN Fn("long_branch", <<TestBit(index, 3)>>)
    ELSE Fn("t_undefined", <<>>)

THUMB_INSTRUCTIONS == [i \in 0..255 |-> decode_thumb(i)]

\* The handlers modelled here; cycle is defined for the opcodes they serve.
Handlers ==
    {"swi", "psr_transfer", "data_processing", "block_data_transfer", "undefined",
     "t_swi", "t_undefined"}

\* ARM_INSTRUCTIONS[op_index](self, opcode), THUMB_INSTRUCTIONS[opcode >> 8](self, opcode)
Execute(c, h, op) ==
    CASE h.fn = "swi" -> swi(c, h.params[1])
      [] h.fn = "psr_transfer" -> psr_transfer(c, h.params[1], h.params[2], op)
      [] h.fn = "data_processing" -> data_processing(c, h.params[1], h.params[2], op)
      [] h.fn = "block_data_transfer" ->
            block_data_transfer(c, h.params[1], h.params[2], h.params[3],
                                h.params[4], h.params[5], op)
      [] h.fn = "undefined" -> undefined(c)
      [] h.fn = "t_swi" -> swi(c, TRUE)
      [] h.fn = "t_undefined" -> undefined(c)

\* The table entry cycle calls for the word op read at r15 in the state of c.
HandlerOf(c, op) ==
    IF 5 \in c.cpsr THEN THUMB_INSTRUCTIONS[Field(op, 8, 15)]
    ELSE ARM_INSTRUCTIONS[op_index(op)]

\* cycle: regs[15] += 4 or 2 unless the instruction branched; branch = false
advance(c) ==
    IF c.panic THEN c
    ELSE [c EXCEPT !.regs[15] = IF c.branch THEN @
                                 ELSE IF 5 \in c.cpsr THEN WAdd(@, {1})
                                 ELSE WAdd(@, {2}),
                   !.branch = FALSE]

\* Arm7TDMI::cycle, op being the word (ARM) or halfword (THUMB) that the
\* read at regs[15] returns.
cycle(c, op) ==
    advance(IF 5 \in c.cpsr \/ cond(c, Field(op, 28, 31))
            THEN Execute(c, HandlerOf(c, op), op)
            ELSE c)

\* JitTranslator::new: no cached block; no call of get_next_block in progress.
JitTranslator_new == [blocks |-> EmptyMem, pc |-> "idle", cycles |-> 0]

\* The record of the operation that produced a state: its name, the CPU it
\* started from, its argument, and n, the number of operations so far.
Last(op, pre, arg, n) == [op |-> op, pre |-> pre, arg |-> arg, n |-> n]

(***************************************************************************)
(* The decoder on its own: an opcode is looked up in the table.            *)
(***************************************************************************)
\* The operand bits of an opcode, which the table index does not see.
OperandBits == (0..3) \cup (8..19) \cup (28..31)

\* The opcode whose index bits (27..20, 7..4) are those of index and whose
\* other bits are fill.
OpcodeAt(index, fill) ==
    {i + 4 : i \in WordOf(index % 16)} \cup {i + 20 : i \in WordOf(index \div 16)}
        \cup fill

\* The operand patterns tried with every index: all zero, all one, and
\* cond = AL, rn = r1, offset = 2.
SampleOperands == {{}, OperandBits, {31, 30, 29, 16, 1}}

InitDecode ==
    /\ opcode \in {OpcodeAt(index, fill) : index \in 0..4095, fill \in SampleOperands}
    /\ handler = NoHandler
    /\ cpu = Arm7TDMI_new
    /\ cycles = 0
    /\ jit = JitTranslator_new
    /\ rom = NoRom
    /\ last = Last("new", Arm7TDMI_new, {}, 0)

\* ARM_INSTRUCTIONS[op_index as usize]
Decode ==
    /\ handler = NoHandler
    /\ handler' = ARM_INSTRUCTIONS[op_index(opcode)]
    /\ UNCHANGED <<opcode, cpu, cycles, jit, last, rom>>

NextDecode == Decode

SpecDecode == InitDecode /\ [][NextDecode]_vars

MaxSteps == 3

\* An ARM opcode with condition AL and the low 28 bits n.
Always(n) == WordOf(n) \cup {29, 30, 31}

\* The ARM instructions of the input streams:
\*   SWI 0                 0xEF000000
\*   MSR CPSR_c, #imm      0xE321F000 | imm, for imm = 0x10 (User), 0x12 (Irq),
\*                         0x11 (Fiq), 0x02 and 0x14 (no mode), 0x3F (System, T)
\*   MSR SPSR_c, #0x11     0xE361F011
\*   MOV r13, #0x03000000  0xE3A0D403
\*   MOVS pc, lr           0xE1B0F00E
\*   LDMDB r0, {pc}^       0xE9508000
ArmProgram ==
    {Always(251658240), Always(56750097), Always(60871683), Always(28373006),
     Always(156270592)}
        \cup {Always(52555776 + imm) : imm \in {16, 18, 17, 2, 20, 63}}

\* The THUMB instructions of the input streams: SWI 0 (0xDF00) and the
\* unassigned encoding 0xB100.
ThumbProgram == {WordOf(57088), WordOf(45312)}

InitCpu ==
    /\ opcode = {}
    /\ handler = NoHandler
    /\ \E ie \in {0, 1}, ime \in {{}, {0}} :
          cpu = [Arm7TDMI_new EXCEPT !.bus.ie = ie, !.bus.ime = ime]
    /\ cycles = 0
    /\ jit = JitTranslator_new
    /\ rom = NoRom
    /\ last = Last("new", Arm7TDMI_new, {}, 0)

\* One call of Arm7TDMI::cycle.
Cycle ==
    /\ ~cpu.panic
    /\ last.n < MaxSteps
    /\ \E op \in (IF 5 \in cpu.cpsr THEN ThumbProgram ELSE ArmProgram) :
          /\ HandlerOf(cpu, op).fn \in Handlers
          /\ cpu' = cycle(cpu, op)
          /\ opcode' = op
          /\ handler' = HandlerOf(cpu, op)
          /\ last' = Last("cycle", cpu, op, last.n + 1)
    /\ UNCHANGED <<cycles, jit, rom>>

\* One call of Arm7TDMI::dispatch_irq.
DispatchIrq ==
    /\ ~cpu.panic
    /\ last.n < MaxSteps
    /\ cpu' = dispatch_irq(cpu)
    /\ last' = Last("dispatch_irq", cpu, {}, last.n + 1)
    /\ UNCHANGED <<opcode, handler, cycles, jit, rom>>

\* An interrupt source raises its request: iff.set_vblank(true), as the PPU
\* does in Bus::tick.
RequestIrq ==
    /\ ~cpu.panic
    /\ cpu.bus.iff % 2 = 0
    /\ cpu' = [cpu EXCEPT !.bus.iff = @ + 1]
    /\ last' = Last("set_vblank", cpu, {}, last.n)
    /\ UNCHANGED <<opcode, handler, cycles, jit, rom>>

NextCpu == Cycle \/ DispatchIrq \/ RequestIrq

SpecCpu == InitCpu /\ [][NextCpu]_vars


\* C2: after an operation (an instruction or an IRQ entry) that changes the
\* CPSR mode bits from a mode A to a different mode B, A's bank holds the r13
\* and r14 that were live before it, and the live r13 and r14 are those last
\* saved for B (the live ones, for User and System, which share them); only
\* r14 on an exception entry is then the return address.
C2_BanksFollowModeSwitch ==
    LET pre == last.pre
        A == ModeBits(pre.cpsr)
        B == ModeBits(cpu.cpsr)
        entry == last.op = "dispatch_irq" \/ handler.fn \in {"swi", "t_swi"}
    IN (last.op \in {"cycle", "dispatch_irq"} /\ A \in Modes /\ B \in Modes /\ A # B) =>
        /\ ~cpu.panic
        /\ cpu.banked_regs[BankOf(A)].bank[5] = pre.regs[13]
        /\ cpu.banked_regs[BankOf(A)].bank[6] = pre.regs[14]
        /\ cpu.regs[13] = IF BankOf(A) = BankOf(B) THEN pre.regs[13]
                          ELSE pre.banked_regs[BankOf(B)].bank[5]
        /\ ~entry => cpu.regs[14] = IF BankOf(A) = BankOf(B) THEN pre.regs[14]
                                    ELSE pre.banked_regs[BankOf(B)].bank[6]

\* C3: in every state reached from reset by instructions and IRQ entries,
\* bit 4 of the CPSR is 1.
C3_CpsrBit4Set == 4 \in cpu.cpsr

\* C4: at an instruction boundary the IRQ entry is performed exactly when
\* IME bit 0 is set, IE & IF is not 0 and CPSR.I is 0; it sets the mode to
\* IRQ, T = 0 and I = 1, leaves F, stores the CPSR it found in SPSR_irq, sets
\* r14_irq to PC + 4 and PC to 0x18; otherwise nothing changes.
C4_IrqEntry ==
    LET pre == last.pre
        taken == 0 \in pre.bus.ime /\ BitAnd(pre.bus.ie, pre.bus.iff) # 0
                    /\ 7 \notin pre.cpsr
    IN last.op = "dispatch_irq" =>
        IF taken THEN
            /\ ~cpu.panic
            /\ ModeBits(cpu.cpsr) = 18
            /\ 5 \notin cpu.cpsr
            /\ 7 \in cpu.cpsr
            /\ (6 \in cpu.cpsr) = (6 \in pre.cpsr)
            /\ cpu.spsr = pre.cpsr
            /\ cpu.regs[14] = WAdd(pre.regs[15], {2})
            /\ cpu.regs[15] = WordOf(24)
        ELSE cpu = pre

\* C5: a SWI executed in a mode M leaves the CPU in Supervisor mode with
\* T = 0 and I = 1, SPSR_svc the CPSR before it, r14_svc the address of the
\* SWI plus 4 (ARM) or 2 (THUMB), PC = 0x08, and M's r13 kept in M's bank.
C5_SwiEntry ==
    LET pre == last.pre
        M == ModeBits(pre.cpsr)
    IN (last.op = "cycle" /\ handler.fn \in {"swi", "t_swi"} /\ M \in Modes) =>
        /\ ~cpu.panic
        /\ ModeBits(cpu.cpsr) = 19
        /\ 5 \notin cpu.cpsr
        /\ 7 \in cpu.cpsr
        /\ cpu.spsr = pre.cpsr
        /\ cpu.regs[14] = WAdd(pre.regs[15], IF 5 \in pre.cpsr THEN {1} ELSE {2})
        /\ cpu.regs[15] = WordOf(8)
        /\ IF M = 19 THEN cpu.regs[13] = pre.regs[13]
           ELSE cpu.banked_regs[BankOf(M)].bank[5] = pre.regs[13]


(***************************************************************************)
(* ppu/lcd.rs, mmu/bus.rs, gba.rs, arm/jit/arm7tdmi.rs: the PPU's state     *)
(* machine, Bus::tick and the step function Gba::run.                      *)
(***************************************************************************)
HDRAW_LEN == 1006
TOTAL_LEN == 1232
TOTAL_LINES == 227

\* iff.set_hblank(true) and its siblings: bit `bit` of the u16 IF set.
IfSet(iff, bit) == IF TestBit(iff, bit) THEN iff ELSE iff + 2 ^ bit

\* Ppu::scanline: the line LY is rendered into the frame buffer and the
\* scratch buffers.  Of the buffers the model keeps the number of calls of
\* scanline and the line of the latest call.
scanline(b) ==
    [b EXCEPT !.ppu.scanlines = @ + 1, !.ppu.rendered = b.ppu.vcount % 256]

\* A mutant of ppu_hdraw: the HBlank request replaces the pending requests.
ppu_hdraw_if_overwritten(b) ==
    IF b.ppu.cycle > HDRAW_LEN
    THEN [scanline(b) EXCEPT !.ppu.dispstat = @ \cup {1},
                             !.ppu.prev_mode = b.ppu.current_mode,
                             !.ppu.current_mode = "HBlank",
                             !.iff = IF 4 \in b.ppu.dispstat THEN 2 ELSE @]
    ELSE b

\* Ppu::cycle, Mode::HDraw
ppu_hdraw(b) ==
    IF b.ppu.cycle > HDRAW_LEN
    THEN [scanline(b) EXCEPT !.ppu.dispstat = @ \cup {1},
                             !.ppu.prev_mode = b.ppu.current_mode,
                             !.ppu.current_mode = "HBlank",
                             !.iff = IF 4 \in b.ppu.dispstat THEN IfSet(@, 1) ELSE @]
    ELSE b

\* Ppu::cycle: vcount.set_ly(ly), dispstat.set_v_counter(ly == lyc) and the
\* V-counter interrupt request
ppu_set_ly(b, ly) ==
    [b EXCEPT !.ppu.vcount = ((@ \div 256) * 256) + ly,
              !.ppu.dispstat = SetFlag(@, 2, ly = Field(@, 8, 15)),
              !.iff = IF ly = Field(b.ppu.dispstat, 8, 15) /\ 5 \in b.ppu.dispstat
                      THEN IfSet(@, 2) ELSE @]

\* Ppu::cycle: self.cycle = 0; dispstat.set_hblank(false); ly + 1
ppu_next_line(b) ==
    ppu_set_ly([b EXCEPT !.ppu.cycle = 0, !.ppu.dispstat = @ \ {1}],
               ((b.ppu.vcount % 256) + 1) % 256)

\* A mutant of ppu_after_hblank: the VBlank request is raised whether or not
\* DISPSTAT enables it.
ppu_after_hblank_always_irq(b) ==
    IF b.ppu.vcount % 256 >= 160
    THEN [b EXCEPT !.iff = IfSet(@, 0),
                   !.ppu.dispstat = @ \cup {0},
                   !.ppu.prev_mode = b.ppu.current_mode,
                   !.ppu.current_mode = "VBlank"]
    ELSE [b EXCEPT !.ppu.prev_mode = b.ppu.current_mode,
                   !.ppu.current_mode = "HDraw"]

\* Ppu::cycle, Mode::HBlank, once the line is over: VBlank from line 160
ppu_after_hblank(b) ==
    IF b.ppu.vcount % 256 >= 160
    THEN [b EXCEPT !.iff = IF 3 \in b.ppu.dispstat THEN IfSet(@, 0) ELSE @,
                   !.ppu.dispstat = @ \cup {0},
                   !.ppu.prev_mode = b.ppu.current_mode,
                   !.ppu.current_mode = "VBlank"]
    ELSE [b EXCEPT !.ppu.prev_mode = b.ppu.current_mode,
                   !.ppu.current_mode = "HDraw"]

\* Ppu::cycle, Mode::HBlank: the internal reference points of BG2 and BG3
\* are incremented by BGxPB and BGxPD at the end of each visible line.
ppu_ref_increment(b) ==
    [b EXCEPT !.ppu.internal_ref_xx = [bg \in 0..1 |-> @[bg] + b.ppu.bgxpb[bg]],
              !.ppu.internal_ref_xy = [bg \in 0..1 |-> @[bg] + b.ppu.bgxpd[bg]]]

\* Ppu::cycle, Mode::VBlank: the reference points are copied to the internal
\* registers at the end of each VBlank line.
ppu_ref_reload(b) ==
    [b EXCEPT !.ppu.internal_ref_xx = b.ppu.bgxx,
              !.ppu.internal_ref_xy = b.ppu.bgxy]

\* A mutant of ppu_hblank: the internal reference points are not incremented.
ppu_hblank_no_increment(b) ==
    IF b.ppu.cycle > TOTAL_LEN THEN ppu_after_hblank(ppu_next_line(b)) ELSE b

\* Ppu::cycle, Mode::HBlank
ppu_hblank(b) ==
    IF b.ppu.cycle > TOTAL_LEN
    THEN ppu_after_hblank(ppu_next_line(ppu_ref_increment(b)))
    ELSE b

\* Ppu::cycle, Mode::VBlank, once the line is over: line 0 after TOTAL_LINES
ppu_after_vblank(b) ==
    IF b.ppu.vcount % 256 >= TOTAL_LINES
    THEN [ppu_set_ly(b, 0) EXCEPT !.ppu.dispstat = @ \ {0},
                                  !.ppu.prev_mode = b.ppu.current_mode,
                                  !.ppu.current_mode = "HDraw"]
    ELSE b

\* A mutant of ppu_vblank: the VBlank lines are rendered too.
ppu_vblank_rendered(b) ==
    IF b.ppu.cycle > TOTAL_LEN
    THEN ppu_after_vblank(ppu_next_line(ppu_ref_reload(b)))
    ELSE IF b.ppu.cycle > HDRAW_LEN
        THEN [(IF 1 \in b.ppu.dispstat THEN b ELSE scanline(b))
              EXCEPT !.ppu.dispstat = @ \cup {1}]
    ELSE b

\* Ppu::cycle, Mode::VBlank
ppu_vblank(b) ==
    IF b.ppu.cycle > TOTAL_LEN
    THEN ppu_after_vblank(ppu_next_line(ppu_ref_reload(b)))
    ELSE IF b.ppu.cycle > HDRAW_LEN THEN [b EXCEPT !.ppu.dispstat = @ \cup {1}]
    ELSE b

\* Ppu::cycle
ppu_cycle(b) ==
    [(IF b.ppu.current_mode = "HDraw" THEN ppu_hdraw(b)
      ELSE IF b.ppu.current_mode = "HBlank" THEN ppu_hblank(b)
      ELSE ppu_vblank(b))
     EXCEPT !.ppu.cycle = @ + 1]

\* iff.set_timer(id): the request bit of timer id, IF bit 3 + id
set_timer(iff, id) == IfSet(iff, 3 + id)

\* iff.set_dma(ch): the request bit of channel ch, IF bit 8 + ch
set_dma(iff, ch) == IfSet(iff, 8 + ch)

\* Timers::tick: 1, 64, 256 or 1024 cycles for Freq::F1 .. Freq::F1024
Freq == <<1, 64, 256, 1024>>

\* Timer::tick: counter.overflowing_add(1), reload on overflow
timer_tick(t) ==
    [t EXCEPT !.counter = IF @ = 65535 THEN t.reload ELSE @ + 1]

\* Timers::tick, timer id is ticked: tm_overflow[id] and the request
timer_ticked(st, id) ==
    [bus |-> [st.bus EXCEPT !.timers[id] = timer_tick(@),
                            !.iff = IF st.bus.timers[id].counter = 65535
                                    THEN set_timer(@, id) ELSE @],
     ov |-> st.bus.timers[id].counter = 65535]

\* Timers::tick, the body of the loop for timer id; st.ov is
\* tm_overflow[id - 1]
timer_step(st, id, n) ==
    IF /\ st.bus.timers[id].start
       /\ \/ ~st.bus.timers[id].count_up /\ n % Freq[st.bus.timers[id].freq + 1] = 0
          \/ st.bus.timers[id].count_up /\ id > 0 /\ st.ov
    THEN timer_ticked(st, id)
    ELSE [bus |-> st.bus, ov |-> FALSE]

\* Timers::tick at the cycle count n
timers_tick(b, n) ==
    timer_step(timer_step(timer_step(timer_step(
        [bus |-> b, ov |-> FALSE], 0, n), 1, n), 2, n), 3, n).bus

\* dma_transfer: the number of units, 0x3FFF (0xFFFF for channel 3) for 0
dma_word_count(d, ch) ==
    IF d.word_count = 0 THEN (IF ch = 3 THEN 65535 ELSE 16383) ELSE d.word_count

\* dma_transfer: one unit read at src_addr and written at dst_addr
dma_copy(b, d, src_addr, dst_addr) ==
    IF d.transfer_type THEN Write32(b, dst_addr, Read32(b, src_addr))
    ELSE Write16(b, dst_addr, Read16(b, src_addr))

\* dma_transfer: src_addr after a unit
dma_next_src(d, src_addr) ==
    IF d.src_addr_ctrl = Increment
        THEN src_addr + (IF d.transfer_type THEN 4 ELSE 2)
    ELSE IF d.src_addr_ctrl = Decrement
        THEN src_addr - (IF d.transfer_type THEN 4 ELSE 2)
    ELSE src_addr

\* dma_transfer: dst_addr after a unit
dma_next_dst(d, dst_addr) ==
    IF d.dst_addr_ctrl \in {Increment, IncReload}
        THEN dst_addr + (IF d.transfer_type THEN 4 ELSE 2)
    ELSE IF d.dst_addr_ctrl = Decrement
        THEN dst_addr - (IF d.transfer_type THEN 4 ELSE 2)
    ELSE dst_addr

RECURSIVE tick(_)
RECURSIVE dma_units(_, _, _)
\* dma_transfer: up to j iterations of for _ in 0..word_count: the copy, a
\* tick of the bus and a cycle for each.  r.st is <<bus, cycles>>, r.src and
\* r.dst are src_addr and dst_addr, r.k is the number of units to go.
dma_units(r, d, j) ==
    IF j = 0 \/ r.k = 0 THEN r
    ELSE dma_units(
            [st |-> [tick([r.st EXCEPT !.bus = dma_copy(@, d, r.src, r.dst)])
                        EXCEPT !.cycles = @ + 1],
             src |-> dma_next_src(d, r.src),
             dst |-> dma_next_dst(d, r.dst),
             k |-> r.k - 1],
            d, j - 1)

RECURSIVE dma_words(_, _)
\* dma_transfer: for _ in 0..word_count, evaluated sixteen iterations at a
\* time
dma_words(r, d) ==
    IF r.k = 0 THEN r ELSE dma_words(dma_units(r, d, 16), d)

\* dma_transfer: the end of the transfer of channel ch
dma_done(r, d, ch) ==
    [r.st EXCEPT
        !.bus.dma_channels[ch] =
            [@ EXCEPT !.enable = IF ~d.repeat \/ d.start_timing = Immediate
                                 THEN FALSE ELSE @,
                      !.src = r.src,
                      !.dst = IF d.dst_addr_ctrl = IncReload THEN d.dst ELSE r.dst],
        !.bus.iff = IF d.dma_irq THEN set_dma(@, ch) ELSE @,
        !.bus.dma_in_progress[ch] = FALSE]

\* dma_transfer, the body of the loop for channel ch; channels is the copy
\* of the channels taken on entry
dma_channel(st, channels, ch, dma_type) ==
    IF channels[ch].enable /\ channels[ch].start_timing = dma_type
    THEN dma_done(
            dma_words([st |-> [st EXCEPT !.bus.dma_in_progress[ch] = TRUE],
                       src |-> channels[ch].src, dst |-> channels[ch].dst,
                       k |-> dma_word_count(channels[ch], ch)],
                      channels[ch]),
            channels[ch], ch)
    ELSE st

\* Bus::dma_transfer
dma_transfer(st, dma_type) ==
    dma_channel(dma_channel(dma_channel(dma_channel(
        st, st.bus.dma_channels, 0, dma_type),
            st.bus.dma_channels, 1, dma_type),
            st.bus.dma_channels, 2, dma_type),
            st.bus.dma_channels, 3, dma_type)

\* DMA::enable_edge: the enable bit is set and was not at the last look
enable_edge(d) == d.enable /\ ~d.was_enabled

\* Bus::tick: self.ppu.prev_mode = self.ppu.current_mode
tick_prev_mode(st) ==
    [st EXCEPT !.bus.ppu.prev_mode = st.bus.ppu.current_mode]

\* Bus::tick: on state/mode change
tick_mode_change(st) ==
    IF st.bus.ppu.prev_mode # st.bus.ppu.current_mode
    THEN tick_prev_mode(
            IF st.bus.ppu.current_mode = "HBlank" THEN dma_transfer(st, HBlank)
            ELSE IF st.bus.ppu.current_mode = "VBlank" THEN dma_transfer(st, VBlank)
            ELSE st)
    ELSE st

\* Bus::tick: the look enable_edge takes at the four channels
tick_edges_seen(st) ==
    [st EXCEPT !.bus.dma_channels =
        [ch \in 0..3 |->
            [@[ch] EXCEPT !.was_enabled = st.bus.dma_channels[ch].enable]]]

\* Bus::tick: on enable transition for immediate DMAs
tick_immediate(st) ==
    IF \E ch \in 0..3 : enable_edge(st.bus.dma_channels[ch])
    THEN dma_transfer(tick_edges_seen(st), Immediate)
    ELSE tick_edges_seen(st)

\* Bus::tick after the PPU's cycle and the timers': the DMA checks, skipped
\* while a transfer is in progress
tick_dma(st) ==
    IF \A ch \in 0..3 : ~st.bus.dma_in_progress[ch]
    THEN tick_immediate(tick_mode_change(st))
    ELSE st

\* Bus::tick(cycles), on <<bus, cycles>>
tick(st) ==
    tick_dma([st EXCEPT !.bus = timers_tick(ppu_cycle(@), st.cycles)])

\* Gba::run: HALT ends once an enabled interrupt is requested
run_wake(c) ==
    IF c.bus.halt /\ BitAnd(c.bus.ie, c.bus.iff) # 0
    THEN [c EXCEPT !.bus.halt = FALSE] ELSE c

\* Gba::run: the CPU's part up to the call of get_next_block
run_dispatch(c) == IF ~c.bus.halt THEN dispatch_irq(c) ELSE c

\* A mutant of run_enter: the interrupt check comes before the test that ends
\* HALT.
run_enter_dispatch_first(c) == run_wake(run_dispatch(c))

\* Gba::run up to the point where it either goes on to the bus tick (the CPU
\* is halted, or get_next_block returns a cached block) or enters the loop
\* of get_next_block
run_enter(c) == run_dispatch(run_wake(c))

\* jit_translator.blocks.contains_key(&self.regs[15])
block_cached(c, j) == c.regs[15] \in DOMAIN j.blocks

\* Gba::run goes straight on to the bus tick
run_skips_loop(c, j) == c.panic \/ c.bus.halt \/ block_cached(c, j)

\* Gba::run: self.cpu.bus.tick(self.cycles); self.cycles += 1, unless a panic
\* ended the run.  From <<cpu, cycles>> to <<cpu, cycles>>.
run_tick(c, n) ==
    IF c.panic THEN [cpu |-> c, cycles |-> n + 1]
    ELSE [cpu |-> [c EXCEPT !.bus = tick([bus |-> c.bus, cycles |-> n]).bus],
          cycles |-> tick([bus |-> c.bus, cycles |-> n]).cycles + 1]

\* get_next_block: the opcode the loop reads at r15
block_fetch(c) ==
    IF 5 \in c.cpsr
    THEN CpuRead32(c.bus, c.regs[15]) \cap (0..15)
    ELSE CpuRead32(c.bus, c.regs[15])

MaxRuns == 4
BlockCyclesWrap == 2
HaltedFor == {0, HDRAW_LEN}

\* The stores that reach the bus between two steps: HALTCNT := 0 (halt),
\* IE := hblank, DISPSTAT := hblank_irq, IME := 1, IF := acknowledge hblank.
RunWrites ==
    {<<67109633, 0>>, <<67109376, 2>>, <<67108868, 16>>, <<67109384, 1>>,
     <<67109378, 2>>}

\* A Gba that has been stepped n times while halted and then woken up by the
\* host: n ticks of the bus have passed, nothing else has changed.
InitRun ==
    /\ opcode = {}
    /\ handler = NoHandler
    /\ \E n \in HaltedFor :
          /\ cpu = [Arm7TDMI_new EXCEPT !.bus.ppu.cycle = n]
          /\ cycles = n
    /\ jit = JitTranslator_new
    /\ rom = NoRom
    /\ last = Last("new", Arm7TDMI_new, 0, 0)

\* A call of Gba::run, up to its return or up to the loop of get_next_block.
Run ==
    /\ jit.pc = "idle"
    /\ ~cpu.panic
    /\ last.n < MaxRuns
    /\ IF run_skips_loop(run_enter(cpu), jit)
       THEN /\ cpu' = run_tick(run_enter(cpu), cycles).cpu
            /\ cycles' = run_tick(run_enter(cpu), cycles).cycles
            /\ jit' = jit
       ELSE /\ cpu' = run_enter(cpu)
            /\ cycles' = cycles
            /\ jit' = [jit EXCEPT !.pc = "while", !.cycles = 0]
    /\ last' = Last("run", cpu, cycles, last.n + 1)
    /\ UNCHANGED <<opcode, handler, rom>>

\* get_next_block: one test of `while !self.branch`.  While branch is false
\* the body reads the opcode at r15 into a local it drops and counts a cycle
\* (no handler is called and r15 stays); the local counter is kept modulo
\* BlockCyclesWrap.  Once branch is true the block is cached, get_next_block
\* returns and Gba::run ticks the bus.
GetNextBlockWhile ==
    /\ jit.pc = "while"
    /\ IF ~cpu.branch
       THEN /\ jit' = [jit EXCEPT !.cycles = (@ + 1) % BlockCyclesWrap]
            /\ UNCHANGED <<cpu, cycles>>
       ELSE /\ jit' = [jit EXCEPT !.pc = "idle",
                                  !.blocks = Put(@, cpu.regs[15], jit.cycles + 1)]
            /\ cpu' = run_tick(cpu, cycles).cpu
            /\ cycles' = run_tick(cpu, cycles).cycles
    /\ UNCHANGED <<opcode, handler, last, rom>>

\* Bus::write8 of a store that reaches the bus between two steps.
BusWrite8 ==
    /\ jit.pc = "idle"
    /\ ~cpu.panic
    /\ \E w \in RunWrites :
          /\ cpu' = [cpu EXCEPT !.bus = Write8(@, w[1], w[2])]
          /\ last' = Last("write8", cpu, w[1], last.n)
    /\ UNCHANGED <<opcode, handler, cycles, jit, rom>>

NextRun == Run \/ GetNextBlockWhile \/ BusWrite8

SpecRun == InitRun /\ [][NextRun]_vars

\* A call of get_next_block that is running keeps running.
SpecRunFair == SpecRun /\ WF_vars(GetNextBlockWhile)

\* The state a step that found the CPU not halted has to return in: the IRQ
\* dispatch, then one instruction, then one tick of the bus.
step_of(c, n) ==
    run_tick(cycle(run_enter(c), block_fetch(run_enter(c))), n).cpu

\* C6: every call of Gba::run returns, and a call that found the CPU not
\* halted returns having executed exactly one instruction (after the IRQ
\* dispatch) and then ticked the bus exactly once.
C6_RunTerminates ==
    /\ [](jit.pc = "while" => <>(jit.pc = "idle"))
    /\ []((last.op = "run" /\ jit.pc = "idle" /\ ~run_wake(last.pre).bus.halt)
            => cpu = step_of(last.pre, last.arg))

\* C7: a step that finds HALT set and IE & IF = 0 leaves every register and
\* the CPSR as they were and ticks the bus once; a step that finds HALT set
\* and IE & IF # 0 clears HALT whatever IME and CPSR.I are, and executes an
\* instruction before it returns.
C7_Halt ==
    /\ []((last.op = "run" /\ last.pre.bus.halt
              /\ BitAnd(last.pre.bus.ie, last.pre.bus.iff) = 0)
            => /\ jit.pc = "idle"
               /\ cpu = run_tick(last.pre, last.arg).cpu)
    /\ []((last.op = "run" /\ last.pre.bus.halt
              /\ BitAnd(last.pre.bus.ie, last.pre.bus.iff) # 0)
            => ~cpu.bus.halt)
    /\ []((last.op = "run" /\ last.pre.bus.halt /\ jit.pc = "while")
            => <>(jit.pc = "idle" /\ cpu = step_of(last.pre, last.arg)))

(***************************************************************************)
(* mmu/bus.rs, mmu/mod.rs: stores of bytes and halfwords on the bus.       *)
(***************************************************************************)
MaxWrites == 2
MaxMirror == 2

\* The byte stores: the first byte of EWRAM, IWRAM, palette RAM, VRAM, OAM
\* and SRAM, a byte of a mirror or the last byte of the window of each
\* (0x0204_0001, 0x03FF_FFFF, 0x0500_0401, 0x06FF_FFFF, 0x0700_0401), and the
\* two bytes of IF (0x0400_0202, 0x0400_0203).
ByteAddresses ==
    {33554432, 33816577, 50331648, 67108863, 83886080, 83887105, 100663296,
     117440511, 117440512, 117441537, 234881024, 67109378, 67109379}

ByteSamples == {0, 255, 90}

\* The halfword stores: EWRAM, an IWRAM mirror (0x0300_8000), palette RAM,
\* a VRAM mirror (0x0601_8000), OAM, and in SRAM 0x0E00_0000, its mirror
\* 0x0E01_0000 and the last halfword 0x0FFF_FFFE.
HalfAddresses ==
    {33554432, 50364416, 83886080, 100761600, 117440512, 234881024,
     234946560, 268435454}

HalfSamples == {4660, 65280}

\* IF as the interrupt sources have left it: a u16 within 0x3FFF.
IfSamples == {0, 16383, 1285, 10922}

InitBus ==
    /\ opcode = {}
    /\ handler = NoHandler
    /\ \E f \in IfSamples : cpu = [Arm7TDMI_new EXCEPT !.bus.iff = f]
    /\ cycles = 0
    /\ jit = JitTranslator_new
    /\ rom = NoRom
    /\ last = Last("new", Arm7TDMI_new, <<0, 0>>, 0)

\* Bus::write8(address, value)
BusStore8 ==
    /\ last.n < MaxWrites
    /\ \E address \in ByteAddresses, value \in ByteSamples :
          /\ cpu' = [cpu EXCEPT !.bus = Write8(@, address, value)]
          /\ last' = Last("write8", cpu, <<address, value>>, last.n + 1)
    /\ UNCHANGED <<opcode, handler, cycles, jit, rom>>

\* Mcu::write16(address, value) on the bus
BusStore16 ==
    /\ last.n < MaxWrites
    /\ \E address \in HalfAddresses, value \in HalfSamples :
          /\ cpu' = [cpu EXCEPT !.bus = Write16(@, address, value)]
          /\ last' = Last("write16", cpu, <<address, value>>, last.n + 1)
    /\ UNCHANGED <<opcode, handler, cycles, jit, rom>>

NextBus == BusStore8 \/ BusStore16

SpecBus == InitBus /\ [][NextBus]_vars

\* The period the claim gives for the window an address lies in.
MirrorPeriod(address) ==
    LET region == address \div 16777216 IN
    IF region = 2 THEN 262144
    ELSE IF region = 3 THEN 32768
    ELSE IF region = 6 THEN 98304
    ELSE 1024

\* The lowest address of the window that is address plus a multiple of the
\* period.
LowestMirror(address) ==
    ((address \div 16777216) * 16777216) + ((address % 16777216) % MirrorPeriod(address))

\* The highest such address.
HighestMirror(address) ==
    LowestMirror(address) + (MirrorPeriod(address) *
        (((((address \div 16777216) * 16777216) + 16777215) - LowestMirror(address))
            \div MirrorPeriod(address)))

\* The first and the last MaxMirror + 1 mirrors of an address in its window.
MirrorsOf(address) ==
    {LowestMirror(address) + (k * MirrorPeriod(address)) : k \in 0..MaxMirror}
        \cup {HighestMirror(address) - (k * MirrorPeriod(address)) : k \in 0..MaxMirror}

Mirrored(address) == address \div 16777216 \in {2, 3, 5, 6, 7}

\* C8: in EWRAM, IWRAM, palette RAM, VRAM and OAM read8 gives the same byte
\* at an address and at every address of the window that differs from it by
\* a multiple of the period, and the byte a write8 stored is read at each of
\* them.
C8_Mirrors ==
    /\ \A a \in {x \in ByteAddresses \cup HalfAddresses : Mirrored(x)} :
        \A m \in MirrorsOf(a) : Read8(cpu.bus, m) = Read8(cpu.bus, a)
    /\ (last.op = "write8" /\ Mirrored(last.arg[1])) =>
        \A m \in MirrorsOf(last.arg[1]) \cup {last.arg[1]} :
            Read8(cpu.bus, m) = last.arg[2]

C8_Witness ==
    /\ last.op = "write8"
    /\ last.arg = <<67108863, 90>>
    /\ Read8(cpu.bus, 50364415) = 90
    /\ Read8(last.pre.bus, 50364415) = 0

\* The regions of the claim: EWRAM, IWRAM, palette RAM, VRAM, OAM and SRAM.
Writable(address) == address \div 16777216 \in {2, 3, 5, 6, 7, 14, 15}

\* C9 as stated: write16(addr, v) followed by read16(addr) gives v at every
\* halfword-aligned address of a writable region that is not MMIO.
C9_Write16Read16 ==
    (last.op = "write16" /\ Writable(last.arg[1]) /\ last.arg[1] % 2 = 0)
        => Read16(cpu.bus, last.arg[1]) = last.arg[2]

\* C9, amended: the same at every such address but 0x0E00_0000, the halfword
\* whose two bytes always read as the Flash ID.
C9_Write16Read16Amended ==
    (last.op = "write16" /\ Writable(last.arg[1]) /\ last.arg[1] % 2 = 0
        /\ last.arg[1] # 234881024)
        => Read16(cpu.bus, last.arg[1]) = last.arg[2]

C9_Witness ==
    /\ last.op = "write16"
    /\ last.arg = <<234946560, 4660>>
    /\ Read16(cpu.bus, 234946560) = 4660
    /\ Get(cpu.bus.sram, 0) = 52

\* C10: a write8 of v to the low (high) byte of IF clears exactly the bits
\* of that byte lane that are 1 in v and changes no other bit, so it sets
\* none; read16 of IF returns the register.
C10_IfAcknowledge ==
    (last.op = "write8" /\ last.arg[1] \in {67109378, 67109379}) =>
        /\ \A i \in 0..15 :
              TestBit(cpu.bus.iff, i) =
                  (/\ TestBit(last.pre.bus.iff, i)
                   /\ ~(IF last.arg[1] = 67109378
                        THEN i < 8 /\ TestBit(last.arg[2], i)
                        ELSE i >= 8 /\ TestBit(last.arg[2], i - 8)))
        /\ Read16(cpu.bus, 67109378) = cpu.bus.iff

C10_Witness ==
    /\ last.op = "write8"
    /\ last.arg = <<67109379, 90>>
    /\ last.pre.bus.iff = 16383
    /\ cpu.bus.iff = 9727

(***************************************************************************)
(* gba.rs, arm/interpreter/arm7tdmi.rs, mmu/bus.rs: a Gba constructed with *)
(* a ROM image, and reads of the cartridge window.                         *)
(***************************************************************************)
MaxReads == 2

\* The offsets looked at: the first two bytes, the last byte of the first
\* 16 MiB, the first byte of the second 16 MiB, the last byte of 32 MiB.
RomOffsets == {0, 1, 16777215, 16777216, 33554431}

\* The lengths of the images: up to 32 MiB.
RomLengths == {1, 2, 16777216, 16777217, 33554432}

RomBytes == {0, 171}

\* The images: a length, and a byte at each of the offsets below it.
RomImages ==
    {RomImage(len, [k \in {j \in DOMAIN f : j < len /\ f[j] # 0} |-> f[k]]) :
        len \in RomLengths, f \in [RomOffsets -> RomBytes]}

\* Gba::with_rom: cpu
with_rom(image) == [Arm7TDMI_new EXCEPT !.bus.rom = rom_arr(image)]

InitRom ==
    /\ opcode = {}
    /\ handler = NoHandler
    /\ rom \in RomImages
    /\ cpu = with_rom(rom)
    /\ cycles = 0
    /\ jit = JitTranslator_new
    /\ last = Last("new", Arm7TDMI_new, <<0, 0>>, 0)

\* Bus::read8(0x0800_0000 + k) for an offset k within the image
RomRead8 ==
    /\ last.n < MaxReads
    /\ \E k \in RomOffsets :
          /\ k < rom.len
          /\ last' = Last("read8", cpu, <<k, Read8(cpu.bus, 134217728 + k)>>,
                          last.n + 1)
    /\ UNCHANGED <<opcode, handler, cpu, cycles, jit, rom>>

NextRom == RomRead8

SpecRom == InitRom /\ [][NextRom]_vars

\* C11: read8(0x0800_0000 + k) returns byte k of the ROM image, for every
\* offset k below the length of the image.
C11_RomRead ==
    last.op = "read8" => last.arg[2] = Get(rom.bytes, last.arg[1])

(***************************************************************************)
(* mmu/bus.rs, mmu/timer.rs, mmu/dma.rs, ppu/lcd.rs: the bus ticked once a *)
(* step, after a program has set up a timer or DMA channels.               *)
(***************************************************************************)
MaxTicks == 1240

\* The PPU and Gba.cycles where the program starts: at reset, after 1000
\* ticks (line 0, six cycles before HDraw ends) and after 197272 ticks
\* (line 159 in HBlank, nine ticks before line 160 begins).
TickStarts ==
    {[cycles |-> 0, ppu |-> PpuDefault],
     [cycles |-> 1000, ppu |-> [PpuDefault EXCEPT !.cycle = 1000]],
     [cycles |-> 197272,
      ppu |-> [PpuDefault EXCEPT !.dispstat = {1}, !.vcount = 159,
                                 !.prev_mode = "HBlank", !.current_mode = "HBlank",
                                 !.cycle = 1225, !.scanlines = 160, !.rendered = 159]]}

\* The halfword stores that set up DMA channel ch: DMAxSAD, DMAxDAD,
\* DMAxCNT_L and DMAxCNT_H at 0x0400_00B0 + 12 * ch.
DmaSetup(ch, src, dst, n, cnt) ==
    << <<67109040 + (12 * ch), src % 65536>>,
       <<67109042 + (12 * ch), src \div 65536>>,
       <<67109044 + (12 * ch), dst % 65536>>,
       <<67109046 + (12 * ch), dst \div 65536>>,
       <<67109048 + (12 * ch), n>>,
       <<67109050 + (12 * ch), cnt>> >>

\* The halfword stores that fill the source at 0x0200_0000 and mark the
\* destinations in VRAM, palette RAM and IWRAM.
DataSetup ==
    << <<33554432, 4660>>, <<33554434, 43981>>, <<33554436, 85>>,
       <<100663296, 65535>>, <<100663298, 61680>>, <<100663302, 23130>>,
       <<83886080, 65535>>, <<83886082, 23130>> >>

\* The programs: none; a VBlank transfer of 1 or 3 halfwords on channel 0
\* and of 240 on channel 3 (EWRAM to VRAM); an immediate transfer of 8
\* halfwords on channel 0 with an HBlank, or a VBlank, transfer on channel 1;
\* HBlank transfers on channels 0 and 1; timer 0 with reload 0xFFFF and
\* prescaler 1024, without and with its IRQ.
TickPrograms ==
    [none |-> << >>,
     vblank_1 |-> DataSetup \o DmaSetup(0, 33554432, 100663296, 1, 36864),
     vblank_3 |-> DataSetup \o DmaSetup(0, 33554432, 100663296, 3, 36864),
     vblank_240 |-> DataSetup \o DmaSetup(3, 33554432, 100663296, 240, 36864),
     imm_hblank |-> DataSetup \o DmaSetup(1, 33554432, 83886080, 1, 40960)
                       \o DmaSetup(0, 33554432, 50331648, 8, 32768),
     imm_vblank |-> DataSetup \o DmaSetup(1, 33554432, 83886080, 1, 36864)
                       \o DmaSetup(0, 33554432, 50331648, 12, 32768),
     hblank_2 |-> DataSetup \o DmaSetup(0, 33554432, 100663296, 2, 40960)
                       \o DmaSetup(1, 33554434, 83886080, 1, 40960),
     timer0 |-> << <<67109120, 65535>>, <<67109122, 131>> >>,
     timer0_irq |-> << <<67109120, 65535>>, <<67109122, 195>> >>]

RECURSIVE Stores(_, _, _)
\* Mcu::write16 of the stores of a program, from the k-th on
Stores(b, prog, k) ==
    IF k > Len(prog) THEN b
    ELSE Stores(Write16(b, prog[k][1], prog[k][2]), prog, k + 1)

InitTick ==
    /\ opcode = {}
    /\ handler = NoHandler
    /\ \E s \in TickStarts :
          /\ cpu = [Arm7TDMI_new EXCEPT !.bus.ppu = s.ppu]
          /\ cycles = s.cycles
    /\ jit = JitTranslator_new
    /\ rom = NoRom
    /\ last = Last("new", Arm7TDMI_new, "none", 0)

\* The program's stores, between two steps.
Configure ==
    /\ last.op = "new"
    /\ \E name \in DOMAIN TickPrograms \ {"none"} :
          /\ cpu' = [cpu EXCEPT !.bus = Stores(@, TickPrograms[name], 1)]
          /\ last' = Last("configure", cpu, name, 0)
    /\ UNCHANGED <<opcode, handler, cycles, jit, rom>>

\* Gba::run: self.cpu.bus.tick(self.cycles); self.cycles += 1
BusTick ==
    /\ last.n < MaxTicks
    /\ cpu' = run_tick(cpu, cycles).cpu
    /\ cycles' = run_tick(cpu, cycles).cycles
    /\ last' = Last("tick", cpu, last.arg, last.n + 1)
    /\ UNCHANGED <<opcode, handler, jit, rom>>

NextTick == Configure \/ BusTick

SpecTick == InitTick /\ [][NextTick]_vars

\* C12: from reset, ticked once a cycle with no timer started and no DMA
\* channel enabled, DISPSTAT.HBlank is 0 and LY is 0 until the tick that
\* finds the line's cycle counter at 1007, which sets HBlank; HBlank stays 1
\* and LY 0 until the tick that finds the counter at 1232, which makes LY 1
\* and HBlank 0.  Gba.cycles counts the ticks since reset.
C12_ScanlineTiming ==
    (last.arg = "none" /\ cycles <= 1233) =>
        /\ cycles <= 1007 => (1 \notin cpu.bus.ppu.dispstat /\ cpu.bus.ppu.vcount = 0)
        /\ (cycles >= 1008 /\ cycles <= 1232)
              => (1 \in cpu.bus.ppu.dispstat /\ cpu.bus.ppu.vcount = 0)
        /\ cycles = 1233 => (1 \notin cpu.bus.ppu.dispstat /\ cpu.bus.ppu.vcount = 1)

\* A channel as the claim sets it up: enabled, VBlank timing, no repeat,
\* halfword units, incrementing source and destination, n >= 1 units.
VBlankOnce(d) ==
    /\ d.enable /\ d.start_timing = VBlank /\ ~d.repeat /\ ~d.transfer_type
    /\ d.src_addr_ctrl = Increment /\ d.dst_addr_ctrl = Increment
    /\ d.word_count >= 1

\* C13: a channel set up as VBlankOnce performs no transfer in a tick in which
\* LY does not become 160: it stays enabled and its addresses stay.  In the
\* tick in which LY becomes 160 the 2n bytes at its destination become the 2n
\* bytes at its source, its addresses have advanced by 2n, and its enable bit
\* is 0 afterwards.
C13_VBlankDma ==
    last.op = "tick" =>
        \A ch \in 0..3 :
            VBlankOnce(last.pre.bus.dma_channels[ch]) =>
                IF last.pre.bus.ppu.vcount # 160 /\ cpu.bus.ppu.vcount = 160
                THEN /\ \A i \in 0..((2 * last.pre.bus.dma_channels[ch].word_count) - 1) :
                          Read8(cpu.bus, last.pre.bus.dma_channels[ch].dst + i)
                              = Read8(last.pre.bus, last.pre.bus.dma_channels[ch].src + i)
                     /\ cpu.bus.dma_channels[ch].src
                          = last.pre.bus.dma_channels[ch].src + (2 * last.pre.bus.dma_channels[ch].word_count)
                     /\ cpu.bus.dma_channels[ch].dst
                          = last.pre.bus.dma_channels[ch].dst + (2 * last.pre.bus.dma_channels[ch].word_count)
                     /\ ~cpu.bus.dma_channels[ch].enable
                ELSE /\ cpu.bus.dma_channels[ch].enable
                     /\ cpu.bus.dma_channels[ch].src = last.pre.bus.dma_channels[ch].src
                     /\ cpu.bus.dma_channels[ch].dst = last.pre.bus.dma_channels[ch].dst

\* C14: timer 0 started with prescaler /1024 and reload 0xFFFF has not
\* overflowed during the first 1023 cycles after its start (IF bit 3 is
\* clear), and after exactly 1024 cycles IF bit 3 is set and the counter
\* equals the reload value.
C14_TimerOverflow ==
    (/\ last.op = "tick"
     /\ last.arg \in {"timer0", "timer0_irq"}
     /\ last.n <= 1024) =>
        /\ cpu.bus.timers[0].start
        /\ cpu.bus.timers[0].freq = 3
        /\ cpu.bus.timers[0].reload = 65535
        /\ last.n < 1024 => ~TestBit(cpu.bus.iff, 3)
        /\ last.n = 1024 =>
            /\ TestBit(cpu.bus.iff, 3)
            /\ cpu.bus.timers[0].counter = cpu.bus.timers[0].reload

\* The start timing a PPU transition from the mode `from` into the mode `to`
\* triggers; Immediate stands for none.
TimingOf(from, to) ==
    IF from = "HDraw" /\ to = "HBlank" THEN HBlank
    ELSE IF from # "VBlank" /\ to = "VBlank" THEN VBlank
    ELSE Immediate

\* Channel d has performed a transfer when it is e afterwards.
Transferred(d, e) ==
    IF d.repeat
    THEN e.src # d.src \/ e.dst # d.dst \/ (d.src_addr_ctrl = Fixed /\ d.dst_addr_ctrl = Fixed)
    ELSE ~e.enable

\* C20: when the PPU has gone into HBlank from HDraw, or into VBlank, during
\* a bus tick (the ticks nested in a transfer included), every channel that
\* was enabled with the matching start timing has performed its transfer by
\* the end of that tick, that is before the next CPU instruction.
C20_DmaOnTransition ==
    last.op = "tick" =>
        \A ch \in 0..3 :
            (/\ TimingOf(last.pre.bus.ppu.current_mode, cpu.bus.ppu.current_mode) # Immediate
             /\ last.pre.bus.dma_channels[ch].enable
             /\ last.pre.bus.dma_channels[ch].start_timing
                    = TimingOf(last.pre.bus.ppu.current_mode, cpu.bus.ppu.current_mode)) =>
                Transferred(last.pre.bus.dma_channels[ch], cpu.bus.dma_channels[ch])

\* C15: a call of cycle on an opcode whose table entry is undefined or
\* t_undefined completes: the emulator is not aborted by a panic.
C15_UndefinedCompletes ==
    (last.op = "cycle" /\ handler.fn \in {"undefined", "t_undefined"}) => ~cpu.panic

(***************************************************************************)
(* The operand-2 shifter, observed through MOVS r0, r1, <shift>: r0 is the *)
(* result and the C flag the carry out.  Rm is r1, Rs is r2.               *)
(***************************************************************************)
MaxShifts == 1

\* 0x80000000, 0x80000001, 1, 0x40000000, 0xFFFFFFFF, 0x12345678
ShiftRm ==
    {{31}, {0, 31}, {0}, {30}, 0..31, WordOf(305419896)}

\* The low byte of Rs
ShiftRs == {0, 1, 2, 31, 32, 33, 64, 255}

\* The 5-bit immediate amounts
ShiftImm == {0, 1, 2, 16, 31}

\* MOVS r0, r1, <shift_type> #imm (0xE1B00001 | ...), or by r2 if reg
Movs(shift_type, imm, reg) ==
    {0, 20, 21, 23, 24, 29, 30, 31}
        \cup {5 + i : i \in WordOf(shift_type)}
        \cup (IF reg THEN {4, 9} ELSE {7 + i : i \in WordOf(imm)})

InitShift ==
    /\ opcode = {}
    /\ handler = NoHandler
    /\ \E rm \in ShiftRm, rs \in ShiftRs, c \in BOOLEAN :
          cpu = [Arm7TDMI_new EXCEPT !.regs[1] = rm, !.regs[2] = WordOf(rs),
                                     !.cpsr = IF c THEN @ \cup {29} ELSE @]
    /\ cycles = 0
    /\ jit = JitTranslator_new
    /\ rom = NoRom
    /\ last = Last("new", Arm7TDMI_new, [shift_type |-> 0, amount |-> 0, reg |-> FALSE], 0)

\* One call of Arm7TDMI::cycle on MOVS r0, r1, <shift>.
Shift ==
    /\ ~cpu.panic
    /\ last.n < MaxShifts
    /\ \E shift_type \in 0..3, by \in {<<FALSE, imm>> : imm \in ShiftImm} \cup {<<TRUE, 0>>} :
          /\ opcode' = Movs(shift_type, by[2], by[1])
          /\ handler' = HandlerOf(cpu, Movs(shift_type, by[2], by[1]))
          /\ cpu' = cycle(cpu, Movs(shift_type, by[2], by[1]))
          /\ last' = Last("shift", cpu,
                          [shift_type |-> shift_type,
                           amount |-> IF by[1] THEN Field(cpu.regs[2], 0, 7) ELSE by[2],
                           reg |-> by[1]],
                          last.n + 1)
    /\ UNCHANGED <<cycles, jit, rom>>

NextShift == Shift

SpecShift == InitShift /\ [][NextShift]_vars

\* The sign of rm in every bit.
SignFill(rm) == IF 31 \in rm THEN 0..31 ELSE {}

\* Section 4.2: the result and the carry out of a shift of rm, c being the
\* incoming C flag; reg tells a register-specified amount.
Shifted(rm, c, shift_type, amount, reg) ==
    IF reg /\ amount = 0 THEN <<rm, c>>
    ELSE IF amount = 0 THEN
        CASE shift_type = 0 -> <<rm, c>>
          [] shift_type = 1 -> <<{}, 31 \in rm>>
          [] shift_type = 2 -> <<SignFill(rm), 31 \in rm>>
          [] shift_type = 3 -> <<Shr(rm, 1) \cup (IF c THEN {31} ELSE {}), 0 \in rm>>
    ELSE IF amount < 32 THEN
        CASE shift_type = 0 -> <<Shl(rm, amount), (32 - amount) \in rm>>
          [] shift_type = 1 -> <<Shr(rm, amount), (amount - 1) \in rm>>
          [] shift_type = 2 ->
                <<Shr(rm, amount) \cup (SignFill(rm) \cap ((32 - amount)..31)),
                  (amount - 1) \in rm>>
          [] shift_type = 3 ->
                <<Shr(rm, amount) \cup Shl(rm, 32 - amount), (amount - 1) \in rm>>
    ELSE
        CASE shift_type = 0 -> <<{}, amount = 32 /\ 0 \in rm>>
          [] shift_type = 1 -> <<{}, amount = 32 /\ 31 \in rm>>
          [] shift_type = 2 -> <<SignFill(rm), 31 \in rm>>
          [] shift_type = 3 ->
                IF amount % 32 = 0 THEN <<rm, 31 \in rm>>
                ELSE <<Shr(rm, amount % 32) \cup Shl(rm, 32 - (amount % 32)),
                       ((amount % 32) - 1) \in rm>>

\* C16: MOVS r0, r1, <shift> completes and leaves in r0 and in the C flag the
\* result and the carry out that section 4.2 gives for Rm, the incoming C,
\* the shift type and the amount (immediate 0..31 or the low byte of Rs).
C16_Shifter ==
    last.op = "shift" =>
        /\ ~cpu.panic
        /\ <<cpu.regs[0], 29 \in cpu.cpsr>>
              = Shifted(last.pre.regs[1], 29 \in last.pre.cpsr,
                        last.arg.shift_type, last.arg.amount, last.arg.reg)

\* MOVS r0, r1, LSR #0 with r1 = 0x80000000 and C clear has given r0 = 0, C = 1.
C16_Witness ==
    /\ last.op = "shift"
    /\ last.arg = [shift_type |-> 1, amount |-> 0, reg |-> FALSE]
    /\ last.pre.regs[1] = {31}
    /\ 29 \notin last.pre.cpsr
    /\ opcode = {0, 5, 20, 21, 23, 24, 29, 30, 31}
    /\ cpu.regs[0] = {}
    /\ 29 \in cpu.cpsr
    /\ ~cpu.panic

(***************************************************************************)
(* SUB, RSB and CMP with the S bit: SUBS r3, r0, r1, RSBS r3, r1, r0 and   *)
(* CMP r0, r1 all have the minuend r0 and the subtrahend r1.               *)
(***************************************************************************)
MaxSubs == 1

\* 0, 1, 2, 0xFFFF, 0x10000, 0x7FFFFFFF, 0x80000000, 0x80000001, 0xFFFFFFFF
SubOperands ==
    {{}, {0}, {1}, 0..15, {16}, 0..30, {31}, {0, 31}, 0..31}

\* SUBS r3, r0, r1 (0xE0503001), RSBS r3, r1, r0 (0xE0713000), CMP r0, r1 (0xE1500001)
SubProgram ==
    [SUBS |-> {0, 12, 13, 20, 22, 29, 30, 31},
     RSBS |-> {12, 13, 16, 20, 21, 22, 29, 30, 31},
     CMP  |-> {0, 20, 22, 24, 29, 30, 31}]

InitSub ==
    /\ opcode = {}
    /\ handler = NoHandler
    /\ \E a \in SubOperands, b \in SubOperands, flags \in {{}, {28, 29, 30, 31}} :
          cpu = [Arm7TDMI_new EXCEPT !.regs[0] = a, !.regs[1] = b,
                                     !.cpsr = @ \cup flags]
    /\ cycles = 0
    /\ jit = JitTranslator_new
    /\ rom = NoRom
    /\ last = Last("new", Arm7TDMI_new, "none", 0)

\* One call of Arm7TDMI::cycle on one of the three instructions.
Sub ==
    /\ ~cpu.panic
    /\ last.n < MaxSubs
    /\ \E name \in DOMAIN SubProgram :
          /\ opcode' = SubProgram[name]
          /\ handler' = HandlerOf(cpu, SubProgram[name])
          /\ cpu' = cycle(cpu, SubProgram[name])
          /\ last' = Last("sub", cpu, name, last.n + 1)
    /\ UNCHANGED <<cycles, jit, rom>>

NextSub == Sub

SpecSub == InitSub /\ [][NextSub]_vars

\* (a - b) mod 2^32, by 16-bit halves
Difference(a, b) ==
    WordFromHalves(
        (Field(a, 16, 31) + 65536 - Field(b, 16, 31)
            - (IF Field(a, 0, 15) < Field(b, 0, 15) THEN 1 ELSE 0)) % 65536,
        (Field(a, 0, 15) + 65536 - Field(b, 0, 15)) % 65536)

\* a >= b as unsigned values
UnsignedGe(a, b) ==
    \/ Field(a, 16, 31) > Field(b, 16, 31)
    \/ Field(a, 16, 31) = Field(b, 16, 31) /\ Field(a, 0, 15) >= Field(b, 0, 15)

\* C17: SUBS, RSBS and CMP with the minuend a = r0 and the subtrahend b = r1
\* leave N = bit 31 of (a - b) mod 2^32, Z = (the difference is 0),
\* C = (a >= b unsigned) and V = (a and b differ in sign and the difference's
\* sign differs from a's); SUBS and RSBS leave the difference in r3, CMP
\* writes no register.
C17_SubFlags ==
    last.op = "sub" =>
        /\ ~cpu.panic
        /\ (31 \in cpu.cpsr) = (31 \in Difference(last.pre.regs[0], last.pre.regs[1]))
        /\ (30 \in cpu.cpsr) = (Difference(last.pre.regs[0], last.pre.regs[1]) = {})
        /\ (29 \in cpu.cpsr) = UnsignedGe(last.pre.regs[0], last.pre.regs[1])
        /\ (28 \in cpu.cpsr) =
              (/\ (31 \in last.pre.regs[0]) # (31 \in last.pre.regs[1])
               /\ (31 \in Difference(last.pre.regs[0], last.pre.regs[1]))
                     # (31 \in last.pre.regs[0]))
        /\ cpu.regs[3] = IF last.arg = "CMP" THEN last.pre.regs[3]
                         ELSE Difference(last.pre.regs[0], last.pre.regs[1])
        /\ \A r \in 0..2 : cpu.regs[r] = last.pre.regs[r]

\* CMP r0, r1 with r0 = 0, r1 = 1 and all four flags set before has left
\* N = 1, Z = 0, C = 0, V = 0.
C17_Witness ==
    /\ last.op = "sub"
    /\ last.arg = "CMP"
    /\ last.pre.regs[0] = {}
    /\ last.pre.regs[1] = {0}
    /\ {28, 29, 30, 31} \subseteq last.pre.cpsr
    /\ cpu.cpsr \cap {28, 29, 30, 31} = {31}
    /\ ~cpu.panic

(***************************************************************************)
(* LDM and STM without the S bit, with the base r0 in EWRAM and a          *)
(* non-empty register list.                                                *)
(***************************************************************************)
MaxBlocks == 1

\* 0x02000000, 0x02040010 and the unaligned 0x02040012
BlockBases == {33554432, 33816592, 33816594}

\* The register lists, as sets of register numbers
BlockLists == {{1, 2, 3}, {1}, {2, 4}, {1, 2, 3, 4}, {0, 1}}

\* LDM/STM r0, list with the bits P, U, W and L: 0xE8000000 | ...
Block(P, U, W, L, list) ==
    {27, 29, 30, 31} \cup list
        \cup (IF P THEN {24} ELSE {}) \cup (IF U THEN {23} ELSE {})
        \cup (IF W THEN {21} ELSE {}) \cup (IF L THEN {20} ELSE {})

\* The nine words around the aligned base hold 0xC0DE0001 .. 0xC0DE0009.
RECURSIVE BlockMemory(_, _, _)
BlockMemory(b, base, i) ==
    IF i = 0 THEN b
    ELSE BlockMemory(Write32(b, (4 * (base \div 4)) - 20 + (4 * i), WordFromHalves(49374, i)),
                     base, i - 1)

InitBlock ==
    /\ opcode = {}
    /\ handler = NoHandler
    /\ \E base \in BlockBases :
          cpu = [Arm7TDMI_new EXCEPT
                    !.regs = [r \in 0..15 |->
                                IF r = 0 THEN WordOf(base)
                                ELSE IF r \in 1..4 THEN WordOf(r) ELSE @[r]],
                    !.bus = BlockMemory(@, base, 9)]
    /\ cycles = 0
    /\ jit = JitTranslator_new
    /\ rom = NoRom
    /\ last = Last("new", Arm7TDMI_new,
                   [P |-> FALSE, U |-> FALSE, W |-> FALSE, L |-> FALSE, list |-> {}], 0)

\* The n words the transfer reaches from the base lie in EWRAM.
BlockInEwram(base, U, n) ==
    /\ Field(base, 24, 31) = 2
    /\ IF U THEN Field(base, 0, 23) + (4 * n) + 4 < 16777216
       ELSE Field(base, 0, 23) >= (4 * n) + 4

\* One call of Arm7TDMI::cycle on an LDM or STM.
BlockTransfer ==
    /\ ~cpu.panic
    /\ last.n < MaxBlocks
    /\ \E P \in BOOLEAN, U \in BOOLEAN, W \in BOOLEAN, L \in BOOLEAN, list \in BlockLists :
          /\ BlockInEwram(cpu.regs[0], U, Cardinality(list))
          /\ opcode' = Block(P, U, W, L, list)
          /\ handler' = HandlerOf(cpu, Block(P, U, W, L, list))
          /\ cpu' = cycle(cpu, Block(P, U, W, L, list))
          /\ last' = Last("block", cpu,
                          [P |-> P, U |-> U, W |-> W, L |-> L, list |-> list],
                          last.n + 1)
    /\ UNCHANGED <<cycles, jit, rom>>

NextBlock == BlockTransfer

SpecBlock == InitBlock /\ [][NextBlock]_vars

\* The lowest of the n word addresses of a transfer from the base address.
LowestAddress(base, P, U, n) ==
    4 * ((IF U THEN (IF P THEN base + 4 ELSE base)
          ELSE (IF P THEN base - (4 * n) ELSE base - (4 * (n - 1)))) \div 4)

\* The position of r in the list, counting the lowest register as 0.
RankIn(list, r) == Cardinality({x \in list : x < r})

MaxStatWrites == 2

\* DISPSTAT's status bits and LY as the PPU leaves them with LYC = 0: line 0
\* after reset and in its HBlank, line 160 and its HBlank, line 0 of a later
\* frame and its HBlank.
StatStarts ==
    {<<{}, 0>>, <<{1}, 0>>, <<{0}, 160>>, <<{0, 1}, 160>>, <<{2}, 0>>, <<{1, 2}, 0>>}

StatBytes == {0, 255, 7, 168}

StatHalves == {0, 65535, 4663, 43688}

\* 0x12345678, 0xFFFFFFFF, 0x00000007
StatWords == {WordOf(305419896), 0..31, {0, 1, 2}}

InitStat ==
    /\ opcode = {}
    /\ handler = NoHandler
    /\ \E st \in StatStarts :
          cpu = [Arm7TDMI_new EXCEPT !.bus.ppu.dispstat = st[1], !.bus.ppu.vcount = st[2]]
    /\ cycles = 0
    /\ jit = JitTranslator_new
    /\ rom = NoRom
    /\ last = Last("new", Arm7TDMI_new, <<0, 0>>, 0)

\* Bus::write8 on a byte of DISPSTAT or VCOUNT
StatWrite8 ==
    /\ last.n < MaxStatWrites
    /\ \E address \in 67108868..67108871, value \in StatBytes :
          /\ cpu' = [cpu EXCEPT !.bus = Write8(@, address, value)]
          /\ last' = Last("write8", cpu, <<address, value>>, last.n + 1)
    /\ UNCHANGED <<opcode, handler, cycles, jit, rom>>

\* Mcu::write16 on DISPSTAT or VCOUNT
StatWrite16 ==
    /\ last.n < MaxStatWrites
    /\ \E address \in {67108868, 67108870}, value \in StatHalves :
          /\ cpu' = [cpu EXCEPT !.bus = Write16(@, address, value)]
          /\ last' = Last("write16", cpu, <<address, value>>, last.n + 1)
    /\ UNCHANGED <<opcode, handler, cycles, jit, rom>>

\* Mcu::write32 on DISPSTAT and VCOUNT
StatWrite32 ==
    /\ last.n < MaxStatWrites
    /\ \E value \in StatWords :
          /\ cpu' = [cpu EXCEPT !.bus = Write32(@, 67108868, value)]
          /\ last' = Last("write32", cpu, <<67108868, Field(value, 0, 15)>>, last.n + 1)
    /\ UNCHANGED <<opcode, handler, cycles, jit, rom>>

NextStat == StatWrite8 \/ StatWrite16 \/ StatWrite32

SpecStat == InitStat /\ [][NextStat]_vars

\* C19: after a bus write of a byte, a halfword or a word to DISPSTAT or
\* VCOUNT, LY and VCOUNT are what they were, the bits 0-2 of DISPSTAT are
\* what they were, and the other bits of DISPSTAT that the write covers are
\* those of the value written: read16 returns (v & ~7) | (previous & 7) after
\* a halfword or word write of v, the byte written (with the previous bits
\* 0-2 in the low byte) beside the other byte unchanged after a byte write,
\* and the previous value after a write to VCOUNT.
C19_DispstatWrite ==
    last.op \in {"write8", "write16", "write32"} =>
        /\ cpu.bus.ppu.vcount = last.pre.bus.ppu.vcount
        /\ Read16(cpu.bus, 67108870) = Read16(last.pre.bus, 67108870)
        /\ Read16(cpu.bus, 67108868) % 8 = Read16(last.pre.bus, 67108868) % 8
        /\ Read16(cpu.bus, 67108868) =
              IF last.arg[1] >= 67108870 THEN Read16(last.pre.bus, 67108868)
              ELSE IF last.op = "write8" /\ last.arg[1] = 67108868
                  THEN (256 * (Read16(last.pre.bus, 67108868) \div 256))
                        + (last.arg[2] - (last.arg[2] % 8))
                        + (Read16(last.pre.bus, 67108868) % 8)
              ELSE IF last.op = "write8"
                  THEN (256 * last.arg[2]) + (Read16(last.pre.bus, 67108868) % 256)
              ELSE (last.arg[2] - (last.arg[2] % 8)) + (Read16(last.pre.bus, 67108868) % 8)

\* A halfword write of 0xFFFF to DISPSTAT in the HBlank of line 160 (VBlank
\* and HBlank set, V-counter clear) is read back as 0xFFFB.
C19_Witness ==
    /\ last.op = "write16"
    /\ last.arg = <<67108868, 65535>>
    /\ Read16(last.pre.bus, 67108868) % 8 = 3
    /\ last.pre.bus.ppu.vcount = 160
    /\ Read16(cpu.bus, 67108868) = 65531
    /\ Read16(cpu.bus, 67108870) = 160

(***************************************************************************)
(* ppu/lcd.rs: the scanline state machine over whole lines.  No DMA        *)
(* channel is enabled and no timer started, so a bus tick is a PPU tick.   *)
(* last.arg records what the ticks of the line so far have shown: since,   *)
(* the ticks since LY last changed (or since the start); hblank, the ticks *)
(* among them that left the HBlank flag set; changes, the changes of LY    *)
(* seen; and, from the last change of LY, the two counts of the line that  *)
(* ended there (line_len, line_hblank), the value LY had in it (line) and   *)
(* the number of calls of Ppu::scanline at its end (line_scanlines), with  *)
(* that number at the end of the line before it (scanlines_before).        *)
(***************************************************************************)
MaxLcdTicks == 2480

\* The PPU and Gba.cycles at the start: at reset; after 197272 ticks (line
\* 159 in HBlank, nine ticks before line 160 begins); after 279883 ticks
\* (line 226, nine ticks before it ends).
LcdStarts ==
    {[cycles |-> 0, ppu |-> PpuDefault],
     [cycles |-> 197272,
      ppu |-> [PpuDefault EXCEPT !.dispstat = {1}, !.vcount = 159,
                                 !.prev_mode = "HBlank", !.current_mode = "HBlank",
                                 !.cycle = 1225, !.scanlines = 160, !.rendered = 159]],
     [cycles |-> 279883,
      ppu |-> [PpuDefault EXCEPT !.dispstat = {0, 1}, !.vcount = 226,
                                 !.prev_mode = "VBlank", !.current_mode = "VBlank",
                                 !.cycle = 1225, !.scanlines = 160, !.rendered = 159]]}

\* DISPSTAT as the program has written it: nothing enabled, or the VBlank
\* interrupt (bit 3).
LcdStatWrites == {0, 8}

LineRecord(since, hblank, changes, line_len, line_hblank, line, scanlines) ==
    [since |-> since, hblank |-> hblank, changes |-> changes,
     line_len |-> line_len, line_hblank |-> line_hblank, line |-> line,
     line_scanlines |-> scanlines[1], scanlines_before |-> scanlines[2]]

InitLcd ==
    /\ opcode = {}
    /\ handler = NoHandler
    /\ \E st \in LcdStarts, v \in LcdStatWrites :
          /\ cpu = [Arm7TDMI_new EXCEPT
                        !.bus = Write16([@ EXCEPT !.ppu = st.ppu], 67108868, v)]
          /\ cycles = st.cycles
    /\ jit = JitTranslator_new
    /\ rom = NoRom
    /\ last = Last("new", Arm7TDMI_new, LineRecord(0, 0, 0, 0, 0, 0, <<0, 0>>), 0)

\* Gba::run's bus.tick and cycles += 1
LcdTick ==
    /\ last.n < MaxLcdTicks
    /\ cpu' = run_tick(cpu, cycles).cpu
    /\ cycles' = run_tick(cpu, cycles).cycles
    /\ last' = Last("tick", cpu,
                    IF cpu'.bus.ppu.vcount # cpu.bus.ppu.vcount
                    THEN LineRecord(0, 0, last.arg.changes + 1, last.arg.since + 1,
                                    last.arg.hblank, cpu.bus.ppu.vcount,
                                    <<cpu'.bus.ppu.scanlines, last.arg.line_scanlines>>)
                    ELSE LineRecord(last.arg.since + 1,
                                    last.arg.hblank + (IF 1 \in cpu'.bus.ppu.dispstat THEN 1 ELSE 0),
                                    last.arg.changes, last.arg.line_len,
                                    last.arg.line_hblank, last.arg.line,
                                    <<last.arg.line_scanlines, last.arg.scanlines_before>>),
                    last.n + 1)
    /\ UNCHANGED <<opcode, handler, jit, rom>>

NextLcd == LcdTick

SpecLcd == InitLcd /\ [][NextLcd]_vars

\* C21: when LY changes for the second time or later, 1232 ticks have passed
\* since its previous change, and the HBlank flag was set after the last 225
\* of them that left LY alone, and after no other.
C21_LineLength ==
    (last.op = "tick" /\ last.arg.since = 0 /\ last.arg.changes >= 2) =>
        /\ last.arg.line_len = 1232
        /\ last.arg.line_hblank = 225

\* C22: a tick leaves LY alone or takes it to the next of the 228 values
\* 0, 1, .., 227, 0, so that LY returns to 0 from 227 only; the lines from
\* 160 on are the VBlank lines.
C22_FrameLines ==
    last.op = "tick" =>
        /\ cpu.bus.ppu.vcount \in 0..227
        /\ \/ cpu.bus.ppu.vcount = last.pre.bus.ppu.vcount
           \/ cpu.bus.ppu.vcount = (last.pre.bus.ppu.vcount + 1) % 228
        /\ (0 \in cpu.bus.ppu.dispstat) = (cpu.bus.ppu.vcount >= 160)

\* C23: the tick that takes LY from 159 to 160 sets the VBlank flag of
\* DISPSTAT and raises bit 0 of IF if and only if bit 3 of DISPSTAT (the
\* VBlank interrupt enable) is set; no other tick changes bit 0 of IF, sets
\* the flag, or clears it unless it takes LY to 0.
C23_VBlankFlag ==
    last.op = "tick" =>
        IF last.pre.bus.ppu.vcount = 159 /\ cpu.bus.ppu.vcount = 160
        THEN /\ 0 \in cpu.bus.ppu.dispstat
             /\ TestBit(cpu.bus.iff, 0)
                   = (TestBit(last.pre.bus.iff, 0) \/ 3 \in last.pre.bus.ppu.dispstat)
        ELSE /\ TestBit(cpu.bus.iff, 0) = TestBit(last.pre.bus.iff, 0)
             /\ (0 \in cpu.bus.ppu.dispstat)
                   = (/\ 0 \in last.pre.bus.ppu.dispstat
                      /\ ~(cpu.bus.ppu.vcount = 0 /\ last.pre.bus.ppu.vcount # 0))

\* With the VBlank interrupt enabled, the tick from line 159 to line 160 has
\* set the flag and raised the request.
C23_Witness ==
    /\ last.op = "tick"
    /\ last.pre.bus.ppu.vcount = 159
    /\ cpu.bus.ppu.vcount = 160
    /\ 3 \in last.pre.bus.ppu.dispstat
    /\ 0 \notin last.pre.bus.ppu.dispstat
    /\ ~TestBit(last.pre.bus.iff, 0)
    /\ 0 \in cpu.bus.ppu.dispstat
    /\ TestBit(cpu.bus.iff, 0)

\* C24: Ppu::scanline is called in the ticks that take a line from HDraw to
\* HBlank and in no other; such a tick belongs to a line LY < 160 and renders
\* that line; a line that has passed has been rendered once if it is one of
\* 0..159 and not at all if it is a VBlank line.  In the VBlank lines the
\* HBlank flag is set from the tick that finds the cycle counter at 1007 to
\* the end of the line.
C24_RenderedOnce ==
    last.op = "tick" =>
        /\ cpu.bus.ppu.scanlines - last.pre.bus.ppu.scanlines
              = IF /\ last.pre.bus.ppu.current_mode = "HDraw"
                   /\ cpu.bus.ppu.current_mode = "HBlank"
                THEN 1 ELSE 0
        /\ cpu.bus.ppu.scanlines # last.pre.bus.ppu.scanlines =>
              /\ last.pre.bus.ppu.vcount < 160
              /\ cpu.bus.ppu.vcount = last.pre.bus.ppu.vcount
              /\ cpu.bus.ppu.rendered = cpu.bus.ppu.vcount
        /\ cpu.bus.ppu.vcount >= 160 =>
              /\ cpu.bus.ppu.scanlines = last.pre.bus.ppu.scanlines
              /\ cpu.bus.ppu.rendered = last.pre.bus.ppu.rendered
              /\ (1 \in cpu.bus.ppu.dispstat) = (cpu.bus.ppu.cycle > 1007)
        /\ (last.arg.since = 0 /\ last.arg.changes >= 2) =>
              last.arg.line_scanlines - last.arg.scanlines_before
                  = IF last.arg.line < 160 THEN 1 ELSE 0

\* Line 160 has passed without a call of Ppu::scanline, its HBlank flag
\* having been set for a part of it.
C24_Witness ==
    /\ last.op = "tick"
    /\ last.arg.since = 0
    /\ last.arg.changes >= 2
    /\ last.arg.line = 160
    /\ last.arg.line_hblank > 0
    /\ cpu.bus.ppu.vcount = 161
    /\ cpu.bus.ppu.scanlines = 160
    /\ cpu.bus.ppu.rendered = 159

(***************************************************************************)
(* gba.rs, arm7tdmi.rs: a request raised by the bus tick of one step is    *)
(* taken at the beginning of the next step.                                *)
(***************************************************************************)

\* The bus tick of the step that has just returned raised a bit of IF that
\* IE enables.
TickRaised ==
    /\ last.op = "run"
    /\ jit.pc = "idle"
    /\ \E i \in 0..13 : /\ TestBit(cpu.bus.iff, i)
                        /\ ~TestBit(last.pre.bus.iff, i)
                        /\ TestBit(cpu.bus.ie, i)

\* C25: when the bus tick of a step has raised a bit of IF that IE enables,
\* with IME enabled and CPSR.I = 0, the next step begins with the IRQ entry:
\* Gba::run up to get_next_block leaves PC = 0x18 and the mode IRQ.  A step
\* that finds such a request has made the entry, and nothing else of the CPU
\* has changed, when it enters the next block: r0-r12 are as the interrupted
\* code left them and r14 holds its return address.
C25_IrqNextStep ==
    /\ (TickRaised /\ ~cpu.panic /\ 0 \in cpu.bus.ime /\ 7 \notin cpu.cpsr) =>
          /\ ~run_enter(cpu).panic
          /\ ~run_enter(cpu).bus.halt
          /\ run_enter(cpu).regs[15] = WordOf(24)
          /\ ModeBits(run_enter(cpu).cpsr) = 18
    /\ (/\ last.op = "run"
        /\ 0 \in last.pre.bus.ime
        /\ 7 \notin last.pre.cpsr
        /\ BitAnd(last.pre.bus.ie, last.pre.bus.iff) # 0) =>
          /\ ~cpu.panic
          /\ jit.pc = "while"
          /\ cycles = last.arg
          /\ cpu.regs[15] = WordOf(24)
          /\ ModeBits(cpu.cpsr) = 18
          /\ 7 \in cpu.cpsr
          /\ cpu.spsr = last.pre.cpsr
          /\ cpu.regs[14] = WAdd(last.pre.regs[15], {2})
          /\ \A i \in 0..12 : cpu.regs[i] = last.pre.regs[i]

\* A halted CPU whose HBlank request had been raised by the tick of the step
\* before, with IME, IE.hblank and DISPSTAT.hblank_irq set, has made the IRQ
\* entry.
C25_Witness ==
    /\ last.op = "run"
    /\ jit.pc = "while"
    /\ last.pre.bus.halt
    /\ last.pre.bus.ppu.cycle = HDRAW_LEN + 2
    /\ last.pre.bus.ppu.current_mode = "HBlank"
    /\ 0 \in last.pre.bus.ime
    /\ TestBit(last.pre.bus.iff, 1)
    /\ TestBit(last.pre.bus.ie, 1)
    /\ cpu.regs[15] = WordOf(24)
    /\ ModeBits(cpu.cpsr) = 18

(***************************************************************************)
(* mmu/timer.rs: the timers at their overflow.                             *)
(***************************************************************************)
MaxTimerTicks == 24

\* The halfword stores that set up timer id: TMxCNT_L (the reload value) and
\* TMxCNT_H at 0x0400_0100 + 4 * id.
TimerSetup(id, reload, cnt) ==
    << <<67109120 + (4 * id), reload>>, <<67109122 + (4 * id), cnt>> >>

\* The state of the PPU 65530 and 131060 bus ticks after reset.
PpuAfter ==
    [early |-> [PpuDefault EXCEPT !.vcount = 53, !.cycle = 181,
                                  !.scanlines = 53, !.rendered = 52],
     late |-> [PpuDefault EXCEPT !.vcount = 106, !.cycle = 362,
                                 !.scanlines = 106, !.rendered = 105]]

\* The programs, stored at reset, and the state of the Gba some ticks before
\* the first overflow they lead to.  Timer 0 with the prescaler 1, started
\* without or with its IRQ, has counted to 65530 after 65530 ticks.  With the
\* reload value 0xFFFF timer 0 overflows in every tick from cycle 65535 on,
\* and timer 1 in count-up mode has counted to 65525 at cycle 131060.
TimerPrograms ==
    [t0 |-> [stores |-> TimerSetup(0, 65520, 128), cycles |-> 65530,
             ppu |-> PpuAfter.early, counters |-> <<65530, 0>>, iff |-> 0],
     t0_irq |-> [stores |-> TimerSetup(0, 65520, 192), cycles |-> 65530,
                 ppu |-> PpuAfter.early, counters |-> <<65530, 0>>, iff |-> 0],
     t0_irq_t1 |-> [stores |-> TimerSetup(0, 65535, 192) \o TimerSetup(1, 4660, 132),
                    cycles |-> 131060, ppu |-> PpuAfter.late,
                    counters |-> <<65535, 65525>>, iff |-> 8],
     t0_irq_t1_irq |-> [stores |-> TimerSetup(0, 65535, 192) \o TimerSetup(1, 4660, 196),
                        cycles |-> 131060, ppu |-> PpuAfter.late,
                        counters |-> <<65535, 65525>>, iff |-> 8],
     t0_irq_t1_off |-> [stores |-> TimerSetup(0, 65535, 192) \o TimerSetup(1, 4660, 68),
                        cycles |-> 131060, ppu |-> PpuAfter.late,
                        counters |-> <<65535, 0>>, iff |-> 8]]

\* The Gba of a program: its stores at reset, then the ticks up to p.cycles.
TimerGba(p) ==
    [Arm7TDMI_new EXCEPT
        !.bus = [Stores(@, p.stores, 1) EXCEPT !.ppu = p.ppu,
                                               !.iff = p.iff,
                                               !.timers[0].counter = p.counters[1],
                                               !.timers[1].counter = p.counters[2]]]

InitTimer ==
    /\ opcode = {}
    /\ handler = NoHandler
    /\ \E name \in DOMAIN TimerPrograms :
          /\ cpu = TimerGba(TimerPrograms[name])
          /\ cycles = TimerPrograms[name].cycles
          /\ last = Last("new", Arm7TDMI_new, name, 0)
    /\ jit = JitTranslator_new
    /\ rom = NoRom

\* Gba::run: self.cpu.bus.tick(self.cycles); self.cycles += 1
TimerTick ==
    /\ last.n < MaxTimerTicks
    /\ cpu' = run_tick(cpu, cycles).cpu
    /\ cycles' = run_tick(cpu, cycles).cycles
    /\ last' = Last("tick", cpu, last.arg, last.n + 1)
    /\ UNCHANGED <<opcode, handler, jit, rom>>

NextTimer == TimerTick

SpecTimer == InitTimer /\ [][NextTimer]_vars

RECURSIVE Overflows(_, _, _)
\* Timer id of the bus b overflows in the tick at the cycle count n: it is
\* started, its counter is 0xFFFF and it is incremented, by its prescaler or,
\* in count-up mode, by the overflow of the timer before it.
Overflows(b, n, id) ==
    /\ b.timers[id].start
    /\ b.timers[id].counter = 65535
    /\ IF b.timers[id].count_up THEN id > 0 /\ Overflows(b, n, id - 1)
       ELSE n % Freq[b.timers[id].freq + 1] = 0

\* C26: in a tick in which a started timer overflows its counter becomes its
\* reload value; the tick raises the timer's bit of IF if and only if the
\* timer overflows in it and its IRQ-enable flag is set.
C26_TimerIrq ==
    last.op = "tick" =>
        \A id \in 0..3 :
            /\ Overflows(last.pre.bus, cycles - 1, id) =>
                  cpu.bus.timers[id].counter = last.pre.bus.timers[id].reload
            /\ (TestBit(cpu.bus.iff, 3 + id) /\ ~TestBit(last.pre.bus.iff, 3 + id))
                  = (/\ Overflows(last.pre.bus, cycles - 1, id)
                     /\ last.pre.bus.timers[id].irq
                     /\ ~TestBit(last.pre.bus.iff, 3 + id))

(***************************************************************************)
(* mmu/dma.rs, mmu/bus.rs: the address controls of a DMA channel.          *)
(***************************************************************************)
MaxCntWrites == 1
MaxCntTicks == 3

\* The source 0x0200_0010 and the destination 0x0200_0100 of channel 0.
CntAddr == [src |-> 33554448, dst |-> 33554688]

\* The halfwords around the source, and channel 0 set up for two units.
CntSetup ==
    << <<CntAddr.src - 4, 4369>>, <<CntAddr.src - 2, 8738>>, <<CntAddr.src, 13107>>,
       <<CntAddr.src + 2, 17476>>, <<CntAddr.src + 4, 21845>>, <<CntAddr.src + 6, 26214>> >>
    \o SubSeq(DmaSetup(0, CntAddr.src, CntAddr.dst, 2, 0), 1, 5)

\* The values written to DMA0CNT_H: enable with the immediate start timing,
\* transfer type (bit 10) t, source control (bits 7-8) sc and destination
\* control (bits 5-6) dc.
CntValues ==
    {32768 + (1024 * t) + (128 * sc) + (32 * dc) :
        t \in 0..1, sc \in 0..3, dc \in 0..3}

InitCnt ==
    /\ opcode = {}
    /\ handler = NoHandler
    /\ cpu = [Arm7TDMI_new EXCEPT !.bus = Stores(@, CntSetup, 1)]
    /\ cycles = 0
    /\ jit = JitTranslator_new
    /\ rom = NoRom
    /\ last = Last("new", Arm7TDMI_new, [v |-> 0, writes |-> 0], 0)

\* Mcu::write16 of v to DMA0CNT_H (0x0400_00BA), between two steps.
CntWrite ==
    /\ last.arg.writes < MaxCntWrites
    /\ \E v \in CntValues :
          /\ cpu' = [cpu EXCEPT !.bus = Write16(@, 67109050, v)]
          /\ last' = Last("write16", cpu, [v |-> v, writes |-> last.arg.writes + 1],
                          last.n)
    /\ UNCHANGED <<opcode, handler, cycles, jit, rom>>

\* Gba::run: self.cpu.bus.tick(self.cycles); self.cycles += 1
CntTick ==
    /\ last.n < MaxCntTicks
    /\ cpu' = run_tick(cpu, cycles).cpu
    /\ cycles' = run_tick(cpu, cycles).cycles
    /\ last' = Last("tick", cpu, last.arg, last.n + 1)
    /\ UNCHANGED <<opcode, handler, jit, rom>>

NextCnt == CntWrite \/ CntTick

SpecCnt == InitCnt /\ [][NextCnt]_vars

\* The unit of a transfer with the control value v: 4 bytes, or 2.
UnitOf(v) == IF TestBit(v, 10) THEN 4 ELSE 2

\* The address k units after a, under the address control ctrl of v.
Moved(a, v, ctrl, k) ==
    IF ctrl = 0 THEN a + (k * UnitOf(v))
    ELSE IF ctrl = 1 THEN a - (k * UnitOf(v))
    ELSE a

\* The unit at address a of the bus b.
UnitAt(b, v, a) == IF TestBit(v, 10) THEN Read32(b, a) ELSE WordOf(Read16(b, a))

\* C27: after a write of v to DMA0CNT_H the destination control of the
\* channel is bits 5-6 and its source control bits 7-8 of v.  The immediate
\* transfer of two units that follows moves the source and the destination
\* address by +S, -S or 0 a unit for increment, decrement and fixed, S being
\* 4 for a 32-bit and 2 for a 16-bit transfer: the second unit is read and
\* written one such step from the addresses written to the channel, which
\* the transfer leaves two steps on.
C27_AddressControl ==
    LET v == last.arg.v
        sc == (v \div 128) % 4
        dc == (v \div 32) % 4
        pre == last.pre.bus
    IN /\ last.op = "write16" =>
            /\ cpu.bus.dma_channels[0].dst_addr_ctrl = dc
            /\ cpu.bus.dma_channels[0].src_addr_ctrl = sc
       /\ (/\ last.op = "tick"
           /\ pre.dma_channels[0].enable
           /\ ~cpu.bus.dma_channels[0].enable
           /\ sc \in 0..2
           /\ dc \in 0..2) =>
            /\ cpu.bus.dma_channels[0].src = Moved(pre.dma_channels[0].src, v, sc, 2)
            /\ cpu.bus.dma_channels[0].dst = Moved(pre.dma_channels[0].dst, v, dc, 2)
            /\ UnitAt(cpu.bus, v, Moved(CntAddr.dst, v, dc, 1))
                  = UnitAt(pre, v, Moved(CntAddr.src, v, sc, 1))

(***************************************************************************)
(* mmu/bus.rs: the repeat flag of a DMA channel.                           *)
(***************************************************************************)
MaxRepeatTicks == 1250

\* The programs, stored at cycle 1000 (LY 0, HDraw) or at cycle 197272 (LY
\* 159, HBlank): channel 1 moves two halfwords from EWRAM to palette RAM at
\* HBlank or at VBlank, without or with repeat.  In hblank_busy the CPU
\* stores DMA0CNT_H at cycle 2235 as well, which starts an immediate transfer
\* of 240 halfwords on channel 0.
RepeatPrograms ==
    [hblank_once |-> [start |-> 2, busy |-> {},
                      stores |-> DataSetup \o DmaSetup(1, 33554432, 83886080, 2, 40960)],
     hblank_repeat |-> [start |-> 2, busy |-> {},
                        stores |-> DataSetup \o DmaSetup(1, 33554432, 83886080, 2, 41472)],
     hblank_busy |-> [start |-> 2, busy |-> {2235},
                      stores |-> DataSetup \o DmaSetup(1, 33554432, 83886080, 2, 41472)
                                   \o SubSeq(DmaSetup(0, 33554432, 50331648, 240, 0), 1, 5)],
     vblank_once |-> [start |-> 3, busy |-> {},
                      stores |-> DataSetup \o DmaSetup(1, 33554432, 83886080, 2, 36864)],
     vblank_repeat |-> [start |-> 3, busy |-> {},
                        stores |-> DataSetup \o DmaSetup(1, 33554432, 83886080, 2, 37376)]]

\* The starts of the programs, of TickStarts.
RepeatStart(k) ==
    CHOOSE st \in TickStarts : st.cycles = <<0, 1000, 197272>>[k]

\* What has been seen of channel 1 since the program was stored: the number
\* of its transfers and of the triggers of its start timing, and whether
\* DMA0CNT_H has been stored.
RepeatRecord(name, transfers, triggers, stored) ==
    [name |-> name, transfers |-> transfers, triggers |-> triggers,
     stored |-> stored]

InitRepeat ==
    /\ opcode = {}
    /\ handler = NoHandler
    /\ \E name \in DOMAIN RepeatPrograms :
          /\ cpu = [Arm7TDMI_new EXCEPT
                      !.bus = Stores([@ EXCEPT !.ppu = RepeatStart(RepeatPrograms[name].start).ppu],
                                     RepeatPrograms[name].stores, 1)]
          /\ cycles = RepeatStart(RepeatPrograms[name].start).cycles
          /\ last = Last("new", Arm7TDMI_new, RepeatRecord(name, 0, 0, FALSE), 0)
    /\ jit = JitTranslator_new
    /\ rom = NoRom

\* Mcu::write16 of 0x8000 (enable, immediate) to DMA0CNT_H, between two
\* steps.
RepeatStore ==
    /\ cycles \in RepeatPrograms[last.arg.name].busy
    /\ ~last.arg.stored
    /\ cpu' = [cpu EXCEPT !.bus = Write16(@, 67109050, 32768)]
    /\ last' = Last("write16", cpu, [last.arg EXCEPT !.stored = TRUE], last.n)
    /\ UNCHANGED <<opcode, handler, cycles, jit, rom>>

\* Gba::run: self.cpu.bus.tick(self.cycles); self.cycles += 1
RepeatTick ==
    /\ last.n < MaxRepeatTicks
    /\ cpu' = run_tick(cpu, cycles).cpu
    /\ cycles' = run_tick(cpu, cycles).cycles
    /\ last' = Last("tick", cpu,
                    [last.arg EXCEPT
                        !.transfers = IF cpu'.bus.dma_channels[1].src
                                            # cpu.bus.dma_channels[1].src
                                      THEN @ + 1 ELSE @,
                        !.triggers = IF cpu.bus.dma_channels[1].start_timing = HBlank
                                     THEN @ + (cpu'.bus.ppu.scanlines - cpu.bus.ppu.scanlines)
                                     ELSE IF /\ cpu.bus.ppu.current_mode # "VBlank"
                                             /\ cpu'.bus.ppu.current_mode = "VBlank"
                                     THEN @ + 1 ELSE @],
                    last.n + 1)
    /\ UNCHANGED <<opcode, handler, jit, rom>>

NextRepeat == RepeatStore \/ RepeatTick

SpecRepeat == InitRepeat /\ [][NextRepeat]_vars

\* C28: a tick in which channel 1 has performed its HBlank or VBlank transfer
\* leaves it enabled if and only if its repeat flag is set.  A channel with
\* repeat = 1 stays enabled and has performed one transfer for every trigger
\* of its start timing, at the latest when the HBlank of the trigger is over
\* (or the first line of the VBlank); a channel with repeat = 0 performs one
\* transfer at most.
C28_Repeat ==
    last.op = "tick" =>
        LET d == cpu.bus.dma_channels[1]
            pre == last.pre.bus.dma_channels[1]
        IN /\ d.src # pre.src => (d.enable = pre.repeat)
           /\ d.repeat =>
                /\ d.enable
                /\ last.arg.transfers <= last.arg.triggers
                /\ (IF d.start_timing = HBlank
                    THEN cpu.bus.ppu.current_mode = "HDraw"
                    ELSE cpu.bus.ppu.vcount # 160) =>
                      last.arg.transfers = last.arg.triggers
           /\ ~d.repeat => last.arg.transfers <= 1

(***************************************************************************)
(* arm7tdmi.rs: MSR in User mode, and the way into FIQ mode and back.      *)
(***************************************************************************)

\* C29: an MSR to the CPSR that is executed in User mode changes bits 24-31
\* of the CPSR at most: bits 0-23 (the mode, T, F and I among them), the live
\* r13 and r14 and the banks are as they were before it.
C29_UserMsr ==
    (/\ last.op = "cycle"
     /\ handler.fn = "psr_transfer"
     /\ 21 \in opcode
     /\ 22 \notin opcode
     /\ ModeBits(last.pre.cpsr) = 16) =>
        /\ ~cpu.panic
        /\ cpu.cpsr \cap (0..23) = last.pre.cpsr \cap (0..23)
        /\ cpu.regs[13] = last.pre.regs[13]
        /\ cpu.regs[14] = last.pre.regs[14]
        /\ cpu.banked_regs = last.pre.banked_regs

\* The instruction that has been executed is MSR CPSR_c, #imm (or CPSR_fc)
\* with the mode bits m in an unrotated immediate.
MsrToMode(m) ==
    /\ last.op = "cycle"
    /\ handler.fn = "psr_transfer"
    /\ {16, 21, 25} \subseteq opcode
    /\ 22 \notin opcode
    /\ Field(opcode, 8, 11) = 0
    /\ Field(opcode, 0, 4) = m

\* C30: an MSR that takes the CPU from a mode M other than FIQ (and User)
\* into FIQ completes: the mode is FIQ, r13 and r14 of M are in M's bank and
\* r8-r14 are those of the FIQ bank.  An MSR that takes it from FIQ to such
\* an M completes as well: r8-r14 as they were in FIQ are in the FIQ bank,
\* and r13 and r14 are those of M's bank.
C30_FiqRoundTrip ==
    /\ (MsrToMode(17) /\ ModeBits(last.pre.cpsr) \in Modes \ {16, 17}) =>
          /\ ~cpu.panic
          /\ ModeBits(cpu.cpsr) = 17
          /\ cpu.banked_regs[BankOf(ModeBits(last.pre.cpsr))].bank[5] = last.pre.regs[13]
          /\ cpu.banked_regs[BankOf(ModeBits(last.pre.cpsr))].bank[6] = last.pre.regs[14]
          /\ \A i \in 0..6 : cpu.regs[8 + i] = last.pre.banked_regs["fiq_regs"].bank[i]
    /\ \A m \in Modes \ {16, 17} :
          (MsrToMode(m) /\ ModeBits(last.pre.cpsr) = 17) =>
              /\ ~cpu.panic
              /\ ModeBits(cpu.cpsr) = m
              /\ \A i \in 0..6 : cpu.banked_regs["fiq_regs"].bank[i] = last.pre.regs[8 + i]
              /\ cpu.regs[13] = last.pre.banked_regs[BankOf(m)].bank[5]
              /\ cpu.regs[14] = last.pre.banked_regs[BankOf(m)].bank[6]

(***************************************************************************)
(* arm7tdmi.rs: an exception entry and the return from it.                 *)
(***************************************************************************)
MaxPrepares == 2

\* The instructions that bring the CPU into a mode M before the entry:
\*   MSR CPSR_c, #imm      for imm = 0x10 (User), 0x12 (Irq), 0x13
\*                         (Supervisor), 0x17 (Abort), 0x1B (Undefined),
\*                         0x3F (System, T)
\*   MSR SPSR_c, #0x11 and LDMDB r0, {pc}^, which leave the mode FIQ
\*   MOV r13, #0x03000000
PrepareProgram ==
    {Always(56750097), Always(156270592), Always(60871683)}
        \cup {Always(52555776 + imm) : imm \in {16, 18, 19, 23, 27, 63}}

\* The returns: MOVS pc, lr (0xE1B0F00E) and SUBS pc, lr, #4 (0xE25EF004).
ReturnProgram == {Always(28373006), Always(39776260)}

\* A CPU at reset with IME and IE.vblank set and the VBlank request pending.
InitReturn ==
    /\ opcode = {}
    /\ handler = NoHandler
    /\ cpu = [Arm7TDMI_new EXCEPT !.bus.ie = 1, !.bus.ime = {0}, !.bus.iff = 1]
    /\ cycles = 0
    /\ jit = JitTranslator_new
    /\ rom = NoRom
    /\ last = Last("new", Arm7TDMI_new, Arm7TDMI_new, 0)

\* Arm7TDMI::cycle of an instruction of PrepareProgram.
Prepare ==
    /\ ~cpu.panic
    /\ last.op \in {"new", "prepare"}
    /\ last.n < MaxPrepares
    /\ 5 \notin cpu.cpsr
    /\ \E op \in PrepareProgram :
          /\ HandlerOf(cpu, op).fn \in Handlers
          /\ cpu' = cycle(cpu, op)
          /\ opcode' = op
          /\ handler' = HandlerOf(cpu, op)
    /\ last' = Last("prepare", cpu, Arm7TDMI_new, last.n + 1)
    /\ UNCHANGED <<cycles, jit, rom>>

\* Arm7TDMI::cycle of SWI 0 (0xEF000000, or 0xDF00 in THUMB state); last.arg
\* is the CPU before the entry.
EnterSwi ==
    /\ ~cpu.panic
    /\ last.op \in {"new", "prepare"}
    /\ opcode' = IF 5 \in cpu.cpsr THEN WordOf(57088) ELSE Always(251658240)
    /\ handler' = HandlerOf(cpu, opcode')
    /\ cpu' = cycle(cpu, opcode')
    /\ last' = Last("enter", cpu, cpu, last.n)
    /\ UNCHANGED <<cycles, jit, rom>>

\* Arm7TDMI::dispatch_irq that takes the pending request.
EnterIrq ==
    /\ ~cpu.panic
    /\ last.op \in {"new", "prepare"}
    /\ 7 \notin cpu.cpsr
    /\ cpu' = dispatch_irq(cpu)
    /\ last' = Last("enter", cpu, cpu, last.n)
    /\ UNCHANGED <<opcode, handler, cycles, jit, rom>>

\* Arm7TDMI::cycle of a return, in the exception mode.
Return ==
    /\ ~cpu.panic
    /\ last.op = "enter"
    /\ \E op \in ReturnProgram :
          /\ HandlerOf(cpu, op).fn \in Handlers
          /\ cpu' = cycle(cpu, op)
          /\ opcode' = op
          /\ handler' = HandlerOf(cpu, op)
    /\ last' = Last("return", last.pre, last.arg, last.n)
    /\ UNCHANGED <<cycles, jit, rom>>

NextReturn == Prepare \/ EnterSwi \/ EnterIrq \/ Return

SpecReturn == InitReturn /\ [][NextReturn]_vars

\* C31: an exception entry from a mode M completes, and the return executed
\* after it (S set, Rd = r15) leaves the CPSR as it was before the entry, its
\* flags included, and r13 as it was in M; when the exception mode is not M,
\* r14 is as it was in M and the exception mode's bank holds the r13 and r14
\* that were live in the exception mode.
C31_ExceptionReturn ==
    /\ (last.op = "enter" /\ ModeOk(last.pre.cpsr)) => ~cpu.panic
    /\ (last.op = "return" /\ ModeOk(last.arg.cpsr)) =>
          LET M == ModeBits(last.arg.cpsr)
              E == ModeBits(last.pre.cpsr)
          IN /\ ~cpu.panic
             /\ cpu.cpsr = last.arg.cpsr
             /\ cpu.regs[13] = last.arg.regs[13]
             /\ BankOf(M) # BankOf(E) =>
                   /\ cpu.regs[14] = last.arg.regs[14]
                   /\ cpu.banked_regs[BankOf(E)].bank[5] = last.pre.regs[13]
                   /\ cpu.banked_regs[BankOf(E)].bank[6] = last.pre.regs[14]

(***************************************************************************)
(* arm7tdmi.rs, arm/mod.rs: ADC, SBC and RSC.                              *)
(***************************************************************************)
MaxCarries == 1

\* ADCS r3, r0, r1 (0xE0B03001), SBCS r3, r0, r1 (0xE0D03001) and
\* RSCS r3, r0, r1 (0xE0F03001)
CarryProgram ==
    [ADCS |-> {0, 12, 13, 20, 21, 23, 29, 30, 31},
     SBCS |-> {0, 12, 13, 20, 22, 23, 29, 30, 31},
     RSCS |-> {0, 12, 13, 20, 21, 22, 23, 29, 30, 31}]

InitCarry ==
    /\ opcode = {}
    /\ handler = NoHandler
    /\ \E a \in SubOperands, b \in SubOperands, flags \in SUBSET {28, 29} :
          cpu = [Arm7TDMI_new EXCEPT !.regs[0] = a, !.regs[1] = b,
                                     !.cpsr = @ \cup flags]
    /\ cycles = 0
    /\ jit = JitTranslator_new
    /\ rom = NoRom
    /\ last = Last("new", Arm7TDMI_new, "none", 0)

\* One call of Arm7TDMI::cycle on one of the three instructions.
Carry ==
    /\ ~cpu.panic
    /\ last.n < MaxCarries
    /\ \E name \in DOMAIN CarryProgram :
          /\ opcode' = CarryProgram[name]
          /\ handler' = HandlerOf(cpu, CarryProgram[name])
          /\ cpu' = cycle(cpu, CarryProgram[name])
          /\ last' = Last("carry", cpu, name, last.n + 1)
    /\ UNCHANGED <<cycles, jit, rom>>

NextCarry == Carry

SpecCarry == InitCarry /\ [][NextCarry]_vars

\* a + b + k without wrap-around, k being 0 or 1: <<the sum mod 2^32,
\* whether the sum is 2^32 or more>>, by 16-bit halves
SumWithCarry(a, b, k) ==
    LET lo == Field(a, 0, 15) + Field(b, 0, 15) + k
        hi == Field(a, 16, 31) + Field(b, 16, 31) + (lo \div 65536)
    IN <<WordFromHalves(hi % 65536, lo % 65536), hi >= 65536>>

\* C32: with S set and the incoming carry C, ADC leaves (Rn + Op2 + C) mod
\* 2^32 in Rd and C = (Rn + Op2 + C >= 2^32); SBC leaves Rn - Op2 - (1 - C)
\* and RSC Op2 - Rn - (1 - C) mod 2^32, with C = (the minuend is at least
\* the subtrahend + (1 - C), computed without wrap-around).
C32_CarryArithmetic ==
    last.op = "carry" =>
        LET rn == last.pre.regs[0]
            op2 == last.pre.regs[1]
            k == IF 29 \in last.pre.cpsr THEN 1 ELSE 0
            m == IF last.arg = "RSCS" THEN op2 ELSE rn
            s == IF last.arg = "RSCS" THEN rn ELSE op2
        IN /\ ~cpu.panic
           /\ last.arg = "ADCS" =>
                /\ cpu.regs[3] = SumWithCarry(rn, op2, k)[1]
                /\ (29 \in cpu.cpsr) = SumWithCarry(rn, op2, k)[2]
           /\ last.arg # "ADCS" =>
                /\ cpu.regs[3] = Difference(Difference(m, s), WordOf(1 - k))
                /\ (29 \in cpu.cpsr) = (UnsignedGe(m, s) /\ (k = 1 \/ m # s))

(***************************************************************************)
(* arm7tdmi.rs: STM with the base register in the list.                    *)
(***************************************************************************)
MaxStms == 1

\* The base registers and the register lists; each list holds a base.
StmBases == {0, 2}
StmLists == {{0, 1}, {1, 2, 3}, {2, 4}, {0, 2}, {0, 1, 2, 3}}

\* STM rn, list with the bits P, U and W
Stm(P, U, W, rn, list) ==
    Block(P, U, W, FALSE, list) \cup {16 + i : i \in WordOf(rn)}

\* The base register holds an address of BlockBases, each other register of
\* r0-r4 its number.
InitStm ==
    /\ opcode = {}
    /\ handler = NoHandler
    /\ \E base \in BlockBases, rn \in StmBases :
          /\ cpu = [Arm7TDMI_new EXCEPT
                      !.regs = [r \in 0..15 |->
                                  IF r = rn THEN WordOf(base)
                                  ELSE IF r \in 0..4 THEN WordOf(r) ELSE @[r]],
                      !.bus = BlockMemory(@, base, 9)]
          /\ last = Last("new", Arm7TDMI_new,
                         [P |-> FALSE, U |-> FALSE, W |-> FALSE, rn |-> rn, list |-> {}], 0)
    /\ cycles = 0
    /\ jit = JitTranslator_new
    /\ rom = NoRom

\* One call of Arm7TDMI::cycle on an STM whose list holds the base.
StmTransfer ==
    /\ ~cpu.panic
    /\ last.n < MaxStms
    /\ \E P \in BOOLEAN, U \in BOOLEAN, W \in BOOLEAN,
          list \in {l \in StmLists : last.arg.rn \in l} :
          /\ BlockInEwram(cpu.regs[last.arg.rn], U, Cardinality(list))
          /\ opcode' = Stm(P, U, W, last.arg.rn, list)
          /\ handler' = HandlerOf(cpu, Stm(P, U, W, last.arg.rn, list))
          /\ cpu' = cycle(cpu, Stm(P, U, W, last.arg.rn, list))
          /\ last' = Last("stm", cpu,
                          [P |-> P, U |-> U, W |-> W, rn |-> last.arg.rn, list |-> list],
                          last.n + 1)
    /\ UNCHANGED <<cycles, jit, rom>>

NextStm == StmTransfer

SpecStm == InitStm /\ [][NextStm]_vars

\* C33: an STM whose list holds its base Rn stores for Rn, at Rn's word of
\* the transfer, the value Rn had before the instruction if Rn is the lowest
\* register of the list, and the value Rn has after the instruction
\* otherwise, for every P, U and W.
C33_StmBase ==
    last.op = "stm" =>
        LET rn == last.arg.rn
            stored == Read32(cpu.bus,
                             LowestAddress(ValueOf(last.pre.regs[rn]), last.arg.P,
                                           last.arg.U, Cardinality(last.arg.list))
                                + (4 * RankIn(last.arg.list, rn)))
        IN /\ ~cpu.panic
           /\ stored = IF \A r \in last.arg.list : rn <= r
                       THEN last.pre.regs[rn]
                       ELSE cpu.regs[rn]

\* C34: after a bus tick, for every timer the byte read at the odd address
\* of TMxCNT_L is the high byte and the byte read at the even address the low
\* byte of the timer's counter, and likewise for TMxCNT_H and the timer's
\* control value; a 16-bit read of TMxCNT_L returns the counter.
C34_TimerRead ==
    last.op = "tick" =>
        \A id \in 0..3 :
            /\ Read8(cpu.bus, 67109120 + (4 * id)) = cpu.bus.timers[id].counter % 256
            /\ Read8(cpu.bus, 67109121 + (4 * id)) = cpu.bus.timers[id].counter \div 256
            /\ Read8(cpu.bus, 67109122 + (4 * id)) = tmr_cnt(cpu.bus.timers[id]) % 256
            /\ Read8(cpu.bus, 67109123 + (4 * id)) = tmr_cnt(cpu.bus.timers[id]) \div 256
            /\ Read16(cpu.bus, 67109120 + (4 * id)) = cpu.bus.timers[id].counter

(***************************************************************************)
(* ppu/lcd.rs: the internal affine reference points of BG2 and BG3.  The   *)
(* program stores the affine registers at reset; the runs start in the     *)
(* second frame, nine ticks before one of its lines ends, and the program  *)
(* may store once more while the HBlank flag is set.  last.arg.written     *)
(* tells whether an affine register was stored since line 0 of the frame   *)
(* began.                                                                  *)
(***************************************************************************)
MaxAffineTicks == 1250
MaxAffineWrites == 1

\* The halfword stores of the program at reset: BG2PB, BG2PD, BG2X, BG2Y,
\* BG3PB, BG3PD, BG3X and BG3Y.
AffinePrograms ==
    {<<<<67108898, 256>>, <<67108902, 65280>>, <<67108904, 4660>>,
       <<67108906, 1>>, <<67108910, 4095>>, <<67108914, 32767>>,
       <<67108918, 32768>>, <<67108922, 65535>>, <<67108924, 7>>>>,
     <<<<67108898, 65535>>, <<67108902, 1>>, <<67108904, 65535>>,
       <<67108906, 2048>>, <<67108908, 1>>, <<67108914, 3>>,
       <<67108920, 40000>>, <<67108926, 2047>>>>}

\* The stores of the program during the run.
AffineStores ==
    {<<67108898, 3>>, <<67108904, 5>>, <<67108918, 65534>>, <<67108926, 65535>>}

\* The lines in which the runs start.
AffineLines == {0, 158, 159, 226}

\* The PPU in line ly of the second frame at PPU cycle 1225, a frame of 227
\* lines of 1233 ticks each after the stores at reset (LYC is 0).
AffineStart(b, ly) ==
    [b EXCEPT !.ppu.dispstat = IF ly >= 160 THEN {0, 1}
                               ELSE IF ly = 0 THEN {1, 2} ELSE {1},
              !.ppu.vcount = ly,
              !.ppu.prev_mode = IF ly >= 160 THEN "VBlank" ELSE "HBlank",
              !.ppu.current_mode = IF ly >= 160 THEN "VBlank" ELSE "HBlank",
              !.ppu.cycle = 1225,
              !.ppu.scanlines = 160 + (IF ly >= 160 THEN 160 ELSE ly + 1),
              !.ppu.rendered = IF ly >= 160 THEN 159 ELSE ly,
              !.ppu.internal_ref_xx =
                  [bg \in 0..1 |-> b.ppu.bgxx[bg]
                                   + (IF ly >= 160 THEN 0 ELSE ly * b.ppu.bgxpb[bg])],
              !.ppu.internal_ref_xy =
                  [bg \in 0..1 |-> b.ppu.bgxy[bg]
                                   + (IF ly >= 160 THEN 0 ELSE ly * b.ppu.bgxpd[bg])]]

InitAffine ==
    /\ opcode = {}
    /\ handler = NoHandler
    /\ \E p \in AffinePrograms, ly \in AffineLines :
          /\ cpu = [Arm7TDMI_new EXCEPT
                        !.bus = AffineStart(Stores(@, p, 1), ly)]
          /\ cycles = ((227 + ly) * 1233) + 1225
    /\ jit = JitTranslator_new
    /\ rom = NoRom
    /\ last = Last("new", Arm7TDMI_new, [written |-> FALSE, writes |-> 0], 0)

\* A halfword store of the program to an affine register, in HBlank
AffineWrite ==
    /\ last.arg.writes < MaxAffineWrites
    /\ 1 \in cpu.bus.ppu.dispstat
    /\ \E st \in AffineStores :
          cpu' = [cpu EXCEPT !.bus = Write16(@, st[1], st[2])]
    /\ last' = Last("write16", cpu,
                    [written |-> TRUE, writes |-> last.arg.writes + 1], last.n)
    /\ UNCHANGED <<opcode, handler, cycles, jit, rom>>

\* Gba::run's bus.tick and cycles += 1
AffineTick ==
    /\ last.n < MaxAffineTicks
    /\ cpu' = run_tick(cpu, cycles).cpu
    /\ cycles' = run_tick(cpu, cycles).cycles
    /\ last' = Last("tick", cpu,
                    [written |-> last.arg.written
                                 /\ ~(cpu'.bus.ppu.vcount % 256 = 0
                                      /\ cpu.bus.ppu.vcount % 256 # 0),
                     writes |-> last.arg.writes],
                    last.n + 1)
    /\ UNCHANGED <<opcode, handler, jit, rom>>

NextAffine == AffineWrite \/ AffineTick

SpecAffine == InitAffine /\ [][NextAffine]_vars

\* C35: throughout line 0 of a frame the internal reference points of BG2 and
\* BG3 equal BGxX and BGxY, and when a tick renders visible line n of a frame
\* in which no affine register was stored, they are BGxX + n * BGxPB and
\* BGxY + n * BGxPD.
C35_AffineReference ==
    /\ cpu.bus.ppu.vcount % 256 = 0 =>
          /\ cpu.bus.ppu.internal_ref_xx = cpu.bus.ppu.bgxx
          /\ cpu.bus.ppu.internal_ref_xy = cpu.bus.ppu.bgxy
    /\ (/\ last.op = "tick"
        /\ cpu.bus.ppu.scanlines # last.pre.bus.ppu.scanlines
        /\ ~last.arg.written) =>
          LET n == cpu.bus.ppu.rendered
              ppu == last.pre.bus.ppu
          IN  /\ n = last.pre.bus.ppu.vcount % 256
              /\ n \in 0..159
              /\ \A bg \in 0..1 :
                    /\ ppu.internal_ref_xx[bg] = ppu.bgxx[bg] + (n * ppu.bgxpb[bg])
                    /\ ppu.internal_ref_xy[bg] = ppu.bgxy[bg] + (n * ppu.bgxpd[bg])

\* Line 159 is rendered with BG3PB = 0x7FFF in a frame without stores.
C35_Witness ==
    /\ last.op = "tick"
    /\ cpu.bus.ppu.scanlines # last.pre.bus.ppu.scanlines
    /\ ~last.arg.written
    /\ cpu.bus.ppu.rendered = 159
    /\ last.pre.bus.ppu.bgxpb[1] = 32767
    /\ last.pre.bus.ppu.internal_ref_xx[1] = 268369920 + (159 * 32767)

(***************************************************************************)
(* ppu/lcd.rs: Ppu::draw_line at one screen column, in a tile mode with    *)
(* the windows off (DISPCNT bits 13..15 clear), BLDCNT's effect None and   *)
(* no semi-transparent sprite, where special_color_effect leaves the line  *)
(* buffers as they are.  An Option<u16> is the empty set (None) or the set *)
(* of its value.  last.arg holds the PPU's part in the composition: the    *)
(* BG enable bits of DISPCNT, BGxCNT.prio, the column of current_bg_line   *)
(* (None for a disabled background, which update_bg_scanline does not      *)
(* render) and of current_sprite_line, and the frame buffer entry.         *)
(***************************************************************************)
OptionOr(a, b) == IF a # {} THEN a ELSE b

\* The pixels of the layers: background bg has colour 16 + bg, the sprite 31.
\* layer[bg] is 0 for a disabled background, 1 for an enabled one with a
\* transparent pixel in the column and 2 for one with an opaque pixel.
LinePpus ==
    {[is_bg_enabled |-> {bg \in 0..3 : layer[bg] # 0}, prio |-> prio,
      current_bg_line |-> [bg \in 0..3 |-> IF layer[bg] = 2 THEN {16 + bg} ELSE {}],
      current_sprite_line |-> sp, buffer |-> {}] :
        layer \in [0..3 -> 0..2], prio \in [0..3 -> {0, 1, 3}],
        sp \in {[px |-> {}, prio |-> 0]} \cup {[px |-> {31}, prio |-> q] : q \in 0..3}}

\* bg_sorted.sort_by_key(|i| self.bgxcnt[*i].prio()): a stable sort, so that
\* backgrounds of equal priority stay in the order of their numbers.
bg_sorted(ppu) ==
    [k \in 1..4 |->
        CHOOSE i \in 0..3 :
            Cardinality({j \in 0..3 : (4 * ppu.prio[j]) + j < (4 * ppu.prio[i]) + i})
                = k - 1]

\* Ppu::draw_line, the body of the loops for one element of bg_sorted:
\* sp.or(bg), with the windows off
final_px(ppu, prio) ==
    LET sp == IF ppu.current_sprite_line.prio = prio
              THEN ppu.current_sprite_line.px ELSE {}
        bg == IF prio \in ppu.is_bg_enabled THEN ppu.current_bg_line[prio] ELSE {}
    IN  OptionOr(sp, bg)

\* Ppu::draw_line: render_line[x] = render_line[x].or(final_px) over
\* bg_sorted, then stored in the frame buffer
draw_line(ppu) ==
    LET order == bg_sorted(ppu)
    IN  [ppu EXCEPT !.buffer =
            OptionOr(OptionOr(OptionOr(final_px(ppu, order[1]), final_px(ppu, order[2])),
                              final_px(ppu, order[3])),
                     final_px(ppu, order[4]))]

InitDraw ==
    /\ opcode = {}
    /\ handler = NoHandler
    /\ cpu = Arm7TDMI_new
    /\ cycles = 0
    /\ jit = JitTranslator_new
    /\ rom = NoRom
    /\ \E ppu \in LinePpus : last = Last("new", Arm7TDMI_new, ppu, 0)

\* Ppu::scanline's call of draw_line
DrawLine ==
    /\ last.op = "new"
    /\ last' = Last("draw_line", last.pre, draw_line(last.arg), 1)
    /\ UNCHANGED <<opcode, handler, cpu, cycles, jit, rom>>

NextDraw == DrawLine

SpecDraw == InitDraw /\ [][NextDraw]_vars

\* The backgrounds with an opaque pixel in the column
OpaqueBgs(ppu) == {bg \in ppu.is_bg_enabled : ppu.current_bg_line[bg] # {}}

\* C36: the composed pixel is None if no layer is opaque; the sprite's pixel
\* if the sprite is opaque and no opaque enabled background has a lower
\* priority number than the sprite; else the pixel of an opaque enabled
\* background of the lowest priority number.
C36_Compose ==
    last.op = "draw_line" =>
        LET ppu == last.arg
            sp == ppu.current_sprite_line
            bgs == OpaqueBgs(ppu)
        IN  IF sp.px # {} /\ \A bg \in bgs : ppu.prio[bg] >= sp.prio
            THEN ppu.buffer = sp.px
            ELSE IF bgs = {} THEN ppu.buffer = {}
            ELSE \E bg \in bgs :
                    /\ \A other \in bgs : ppu.prio[bg] <= ppu.prio[other]
                    /\ ppu.buffer = ppu.current_bg_line[bg]

(***************************************************************************)
(* ppu/mod.rs: modify_brightness on one RGB555 pixel.  The channels are    *)
(* u16; an overflowing u16 operation wraps.  last.arg holds MODE, the      *)
(* pixel, EVY and the result.                                              *)
(***************************************************************************)
\* The values of a channel and of EVY the pixels are made of.
BrightChannels == {0, 1, 15, 16, 30, 31}
BrightEvys == {0, 1, 8, 15, 16, 17, 31}

\* Channel k (0 red, 1 green, 2 blue) of an RGB555 pixel
Channel(px, k) == (px \div (32 ^ k)) % 32

\* modify_brightness::<MODE>(target_px_a, evy)
modify_brightness(MODE, target_px_a, evy) ==
    LET evy_coeff == IF evy > 16 THEN 16 ELSE evy
        map(c) == IF MODE THEN (c + ((31 - c) * evy_coeff)) % 65536
                  ELSE (c + 65536 - ((c * evy_coeff) % 65536)) % 65536
        r == map(Channel(target_px_a, 0))
        g == map(Channel(target_px_a, 1))
        b == map(Channel(target_px_a, 2))
    IN  BitOr(BitOr((b * 1024) % 65536, (g * 32) % 65536), r)

InitBright ==
    /\ opcode = {}
    /\ handler = NoHandler
    /\ cpu = Arm7TDMI_new
    /\ cycles = 0
    /\ jit = JitTranslator_new
    /\ rom = NoRom
    /\ \E MODE \in BOOLEAN, r \in BrightChannels, g \in BrightChannels,
          b \in BrightChannels, evy \in BrightEvys :
          last = Last("new", Arm7TDMI_new,
                      [MODE |-> MODE, px |-> (1024 * b) + (32 * g) + r,
                       evy |-> evy, out |-> 0], 0)

\* Ppu::special_color_effect's call of modify_brightness
Brightness ==
    /\ last.op = "new"
    /\ last' = Last("modify_brightness", last.pre,
                    [last.arg EXCEPT
                        !.out = modify_brightness(last.arg.MODE, last.arg.px, last.arg.evy)],
                    1)
    /\ UNCHANGED <<opcode, handler, cpu, cycles, jit, rom>>

NextBright == Brightness

SpecBright == InitBright /\ [][NextBright]_vars

\* C37: each channel top of the pixel becomes top + (31 - top) * evy / 16
\* (increase) or top - top * evy / 16 (decrease), evy taken as 16 above 16;
\* the result is a pixel of three channels in 0..31, each depending on its
\* own channel only.
C37_Brightness ==
    last.op = "modify_brightness" =>
        LET evy == IF last.arg.evy > 16 THEN 16 ELSE last.arg.evy
        IN  /\ last.arg.out < 32768
            /\ \A k \in 0..2 :
                  LET top == Channel(last.arg.px, k)
                  IN  Channel(last.arg.out, k) =
                        IF last.arg.MODE THEN top + (((31 - top) * evy) \div 16)
                        ELSE top - ((top * evy) \div 16)

(***************************************************************************)
(* mmu/bus.rs: the interrupt request flags over bus ticks and writes to    *)
(* IF.  At reset the program enables the three PPU interrupts in DISPSTAT  *)
(* and starts timer 0 with its IRQ, reload 0xFFFF and prescaler 1; where   *)
(* the run starts it starts an immediate transfer of one halfword from     *)
(* EWRAM to IWRAM on DMA channel 0 with its IRQ.  No transfer has the I/O  *)
(* registers as its destination.                                           *)
(* last.arg holds the halfword of the latest write to IF and the number of *)
(* such writes.                                                            *)
(***************************************************************************)
MaxIfTicks == 12
MaxIfWrites == 2

IfProgram ==
    [reset |-> << <<67108868, 56>>, <<67109120, 65535>>, <<67109122, 192>> >>,
     start |-> DmaSetup(0, 33554432, 50331648, 1, 49152)]

\* The halfwords the program writes to IF.
IfValues == {8, 258, 65535}

\* The PPU, timer 0's counter, IF and Gba.cycles where the run starts: six
\* ticks before HDraw of line 0 ends; nine ticks before line 160 begins,
\* timer 0 overflowing in every tick, the program having acknowledged every
\* request before the latest tick.
IfStarts ==
    {[cycles |-> 1000, ppu |-> [PpuDefault EXCEPT !.cycle = 1000],
      counter |-> 1000, iff |-> 0],
     [cycles |-> 197272,
      ppu |-> [PpuDefault EXCEPT !.dispstat = {1}, !.vcount = 159,
                                 !.prev_mode = "HBlank", !.current_mode = "HBlank",
                                 !.cycle = 1225, !.scanlines = 160, !.rendered = 159],
      counter |-> 65535, iff |-> 8]}

\* The bus where the run starts, before the stores that start the transfer
IfBus(s) ==
    [Stores(Arm7TDMI_new.bus, IfProgram.reset, 1)
        EXCEPT !.ppu = [s.ppu EXCEPT !.dispstat = @ \cup {3, 4, 5}],
               !.timers[0].counter = s.counter,
               !.iff = s.iff]

InitIf ==
    /\ opcode = {}
    /\ handler = NoHandler
    /\ \E s \in IfStarts :
          /\ cpu = [Arm7TDMI_new EXCEPT
                        !.bus = Stores(IfBus(s), IfProgram.start, 1)]
          /\ cycles = s.cycles
    /\ jit = JitTranslator_new
    /\ rom = NoRom
    /\ last = Last("new", Arm7TDMI_new, [value |-> 0, writes |-> 0], 0)

\* Gba::run's bus.tick and cycles += 1
IfTick ==
    /\ last.n < MaxIfTicks
    /\ cpu' = run_tick(cpu, cycles).cpu
    /\ cycles' = run_tick(cpu, cycles).cycles
    /\ last' = Last("tick", cpu, last.arg, last.n + 1)
    /\ UNCHANGED <<opcode, handler, jit, rom>>

\* A halfword store of the program to IF (0x0400_0202)
IfWrite ==
    /\ last.arg.writes < MaxIfWrites
    /\ \E v \in IfValues :
          /\ cpu' = [cpu EXCEPT !.bus = Write16(@, 67109378, v)]
          /\ last' = Last("write16", cpu,
                          [value |-> v, writes |-> last.arg.writes + 1], last.n)
    /\ UNCHANGED <<opcode, handler, cycles, jit, rom>>

NextIf == IfTick \/ IfWrite

SpecIf == InitIf /\ [][NextIf]_vars

\* C38: a bus tick leaves every set bit of IF set, and a write to IF leaves
\* set every set bit to which it does not write 1.
C38_IfSticky ==
    /\ last.op = "tick" =>
          \A bit \in 0..15 : TestBit(last.pre.bus.iff, bit) => TestBit(cpu.bus.iff, bit)
    /\ last.op = "write16" =>
          \A bit \in 0..15 :
              (TestBit(last.pre.bus.iff, bit) /\ ~TestBit(last.arg.value, bit))
                  => TestBit(cpu.bus.iff, bit)

\* A tick raises the VBlank request while the requests of timer 0 and of
\* DMA channel 0 are pending.
C38_Witness ==
    /\ last.op = "tick"
    /\ TestBit(last.pre.bus.iff, 3)
    /\ TestBit(last.pre.bus.iff, 8)
    /\ ~TestBit(last.pre.bus.iff, 0)
    /\ TestBit(cpu.bus.iff, 0)
    /\ TestBit(cpu.bus.iff, 3)
    /\ TestBit(cpu.bus.iff, 8)

(***************************************************************************)
(* ppu/lcd.rs: Ppu::render_text_bg at one screen column.  last.arg holds   *)
(* the PPU's part in it (BGxCNT, BGxHOFS, BGxVOFS, LY), the column x and   *)
(* the offsets of the accesses made: the higher byte of the map entry and  *)
(* the tile byte in VRAM, the higher byte of the colour in palette RAM,    *)
(* and the index into current_bg_line.  The map entry and the tile byte    *)
(* are read from the bus's VRAM.  An index past the end of a slice panics; *)
(* the u16 sum of LY and BGxVOFS wraps.                                    *)
(***************************************************************************)
TextBgCnts ==
    {(4 * cbb) + (128 * bpp) + (256 * sbb) + (16384 * size) :
        cbb \in 0..3, bpp \in 0..1, sbb \in {0, 31}, size \in {0, 3}}
TextOffsets == {0, 7, 65535}
TextLines == {0, 159}
TextColumns == {0, 239}
TextTileIds == {0, 767, 768, 1023, 4095, 65535}
TextTileBytes == {0, 255}

\* Ppu::render_text_bg: map_data for column x
text_map_data(ppu, x) ==
    LET screen_size == ppu.bg_cnt \div 16384
        screen_base_block == (ppu.bg_cnt \div 256) % 32
        y_off == ((ppu.ly + ppu.bg_vofs) % 65536) % 256
        x_off == (x + ppu.bg_hofs) % 256
        sbb_x == ((x + ppu.bg_hofs) % 512) \div 256
        sbb_y == (y_off % 512) \div 256
        sbb_off == IF screen_size = 0 THEN 0
                   ELSE IF screen_size = 1 THEN sbb_x
                   ELSE IF screen_size = 2 THEN sbb_y
                   ELSE sbb_x + sbb_y
    IN  (screen_base_block * 2048) + (sbb_off * 2048)
            + (2 * ((32 * (y_off \div 8)) + (x_off \div 8)))

\* Ppu::render_text_bg: tile_off and tile_addr for column x
text_tile(ppu, vram, x) ==
    LET bpp == (ppu.bg_cnt \div 128) % 2 = 1
        tile_data == ((ppu.bg_cnt \div 4) % 4) * 16384
        y_off == ((ppu.ly + ppu.bg_vofs) % 65536) % 256
        x_off == (x + ppu.bg_hofs) % 256
        map_data == text_map_data(ppu, x)
        tile_id == (Get(vram, map_data + 1) * 256) + Get(vram, map_data)
        tile_start_addr == tile_data + ((tile_id % 1024) * (IF bpp THEN 64 ELSE 32))
        x_flip == IF TestBit(tile_id, 10) THEN 7 - (x_off % 8) ELSE x_off % 8
        tile_off == ((IF TestBit(tile_id, 11) THEN 7 - (y_off % 8) ELSE y_off % 8) * 8)
                        + x_flip
    IN  [pal_idx |-> tile_id \div 4096, off |-> tile_off,
         addr |-> tile_start_addr + (tile_off \div (IF bpp THEN 1 ELSE 2))]

\* Ppu::render_text_bg, the body of its loop for column x: the offsets of
\* its accesses, and whether one of them is out of bounds
render_text_bg(ppu, vram, x) ==
    LET bpp == (ppu.bg_cnt \div 128) % 2 = 1
        tile == text_tile(ppu, vram, x)
        byte == Get(vram, tile.addr)
        px_idx == IF bpp THEN byte ELSE (byte \div (16 ^ (tile.off % 2))) % 16
        palette == IF bpp THEN (px_idx * 2) + 1
                   ELSE BitOr(tile.pal_idx * 32, (px_idx * 2) + 1)
    IN  IF text_map_data(ppu, x) + 1 >= 98304
        THEN [map |-> text_map_data(ppu, x) + 1, tile |-> 0, palette |-> 0,
              line |-> 0, panic |-> TRUE]
        ELSE IF tile.addr >= 98304
        THEN [map |-> text_map_data(ppu, x) + 1, tile |-> tile.addr, palette |-> 0,
              line |-> 0, panic |-> TRUE]
        ELSE [map |-> text_map_data(ppu, x) + 1, tile |-> tile.addr,
              palette |-> palette, line |-> x,
              panic |-> palette >= 1024 \/ x >= 512]

NoAccesses == [map |-> 0, tile |-> 0, palette |-> 0, line |-> 0, panic |-> FALSE]

\* VRAM with the map entry of the column and, where the tile byte is inside
\* VRAM, the tile byte
TextVram(ppu, x, tile_id, byte) ==
    LET map == Put(Put(EmptyMem, text_map_data(ppu, x), tile_id % 256),
                   text_map_data(ppu, x) + 1, tile_id \div 256)
        addr == text_tile(ppu, map, x).addr
    IN  IF addr < 98304 /\ addr \notin {text_map_data(ppu, x), text_map_data(ppu, x) + 1}
        THEN Put(map, addr, byte) ELSE map

InitText ==
    /\ opcode = {}
    /\ handler = NoHandler
    /\ cycles = 0
    /\ jit = JitTranslator_new
    /\ rom = NoRom
    /\ \E bg_cnt \in TextBgCnts, bg_hofs \in TextOffsets, bg_vofs \in TextOffsets,
          ly \in TextLines, x \in TextColumns, tile_id \in TextTileIds,
          byte \in TextTileBytes :
          LET ppu == [bg_cnt |-> bg_cnt, bg_hofs |-> bg_hofs, bg_vofs |-> bg_vofs,
                      ly |-> ly, x |-> x, accesses |-> NoAccesses]
          IN  /\ cpu = [Arm7TDMI_new EXCEPT !.bus.vram = TextVram(ppu, x, tile_id, byte)]
              /\ last = Last("new", Arm7TDMI_new, ppu, 0)

\* Ppu::update_bg_scanline's call of render_text_bg, for the column
RenderTextBg ==
    /\ last.op = "new"
    /\ LET r == render_text_bg(last.arg, cpu.bus.vram, last.arg.x)
       IN  /\ cpu' = [cpu EXCEPT !.panic = r.panic]
           /\ last' = Last("render_text_bg", cpu, [last.arg EXCEPT !.accesses = r], 1)
    /\ UNCHANGED <<opcode, handler, cycles, jit, rom>>

NextText == RenderTextBg

SpecText == InitText /\ [][NextText]_vars

\* C39: rendering a column of a text background reads VRAM below 0x18000 and
\* palette RAM below 0x400, writes the line buffer below 512, and does not
\* abort.
C39_RenderInBounds ==
    last.op = "render_text_bg" =>
        /\ last.arg.accesses.map < 98304
        /\ last.arg.accesses.tile < 98304
        /\ last.arg.accesses.palette < 1024
        /\ last.arg.accesses.line < 512
        /\ ~cpu.panic

(***************************************************************************)
(* mmu/dma.rs: halfword stores to DMAxSAD and DMAxDAD.  last.arg is the    *)
(* address and the value of the latest store.                              *)
(***************************************************************************)
MaxAddrWrites == 2

\* The halfwords the program stores.
AddrValues == {256, 512, 4660, 65535}

\* The halfwords of DMAxSAD and DMAxDAD: 0x0400_00B0 + 12 * ch + 0, 2, 4, 6
AddrRegs == {67109040 + (12 * ch) + reg : ch \in 0..3, reg \in {0, 2, 4, 6}}

InitAddr ==
    /\ opcode = {}
    /\ handler = NoHandler
    /\ cpu = Arm7TDMI_new
    /\ cycles = 0
    /\ jit = JitTranslator_new
    /\ rom = NoRom
    /\ last = Last("new", Arm7TDMI_new, [address |-> 0, value |-> 0], 0)

\* Mcu::write16 of the bus at a halfword of DMAxSAD or DMAxDAD
AddrWrite ==
    /\ last.n < MaxAddrWrites
    /\ \E address \in AddrRegs, value \in AddrValues :
          /\ cpu' = [cpu EXCEPT !.bus = Write16(@, address, value)]
          /\ last' = Last("write16", cpu, [address |-> address, value |-> value],
                          last.n + 1)
    /\ UNCHANGED <<opcode, handler, cycles, jit, rom>>

NextAddr == AddrWrite

SpecAddr == InitAddr /\ [][NextAddr]_vars

\* C40: a store to the upper halfword of DMAxSAD or DMAxDAD replaces address
\* bits 16..26 (16..27 for channel 3) and keeps bits 0..15; a store to the
\* lower halfword replaces bits 0..15 and keeps the upper bits.
C40_DmaAddress ==
    last.op = "write16" =>
        LET addr == last.arg.address - 67108864
            ch == dma_ch(addr)
            reg == dma_reg(addr)
            old == IF reg < 4 THEN last.pre.bus.dma_channels[ch].src
                   ELSE last.pre.bus.dma_channels[ch].dst
            new == IF reg < 4 THEN cpu.bus.dma_channels[ch].src
                   ELSE cpu.bus.dma_channels[ch].dst
        IN  IF reg \in {0, 4}
            THEN new % 65536 = last.arg.value /\ new \div 65536 = old \div 65536
            ELSE /\ new \div 65536 = last.arg.value % (IF ch = 3 THEN 4096 ELSE 2048)
                 /\ new % 65536 = old % 65536

====
